---- MODULE Spec2Model ----
(***************************************************************************)
(* Model of the GCP QProvisioner (provision.py): one provisioning run as a *)
(* sequential state machine against an external cluster (qq CLI), the GCS  *)
(* buckets and the Firestore document store.                               *)
(*                                                                         *)
(* Strings are sequences of atoms (an atom is an opaque token such as      *)
(* "n1" or the separator ","); a Python list of strings is a sequence of   *)
(* such strings.  Firestore values are strings; "null" is the sentinel.    *)
(*                                                                         *)
(* The cluster is an environment: after a formation or membership command  *)
(* it reconfigures nondeterministically (possibly wrongly) while the       *)
(* controller sleeps in one of its polling loops.                          *)
(***************************************************************************)
EXTENDS Integers, Sequences, FiniteSets, TLC

\* ------------------------------------------------------------------ bounds
MaxNodes == 3
MaxLimit == 2

\* ------------------------------------------------------- names and tables
IpName == <<"n1", "n2", "n3", "n4", "n5", "n6">>
FdName == <<"fd1", "fd2", "fd3", "fd4", "fd5", "fd6">>
InstName == <<"i1", "i2", "i3", "i4", "i5", "i6">>
IntName == <<"0", "1", "2", "3", "4", "5", "6", "7", "8", "9">>

NodeIdx == 1..MaxNodes
Ip(i) == <<IpName[i]>>
Ips == {Ip(i) : i \in NodeIdx}

\* node id the cluster reports for the node at an address (node_state_get)
Qid(ip) == CHOOSE i \in 1..Len(IpName) : IpName[i] = ip[1]

Range(s) == {s[i] : i \in 1..Len(s)}

RECURSIVE IdxSeq(_)
IdxSeq(S) ==
    IF S = {} THEN <<>>
    ELSE LET m == CHOOSE x \in S : \A y \in S : x <= y
         IN  <<m>> \o IdxSeq(S \ {m})

IpList(S) == [i \in 1..Cardinality(S) |-> Ip(IdxSeq(S)[i])]
IpLists == {IpList(S) : S \in SUBSET NodeIdx}

FdOf(ip) == <<FdName[Qid(ip)]>>
InstOf(ip) == <<InstName[Qid(ip)]>>

str(n) == <<IntName[n + 1]>>

\* str.isdigit and int() of a string of decimal digits
Digits == Range(IntName)
isdigit(s) == Len(s) > 0 /\ \A i \in 1..Len(s) : s[i] \in Digits
DigitVal(c) == CHOOSE n \in 0..(Len(IntName) - 1) : IntName[n + 1] = c
RECURSIVE int(_)
int(s) ==
    IF Len(s) = 0 THEN 0
    ELSE int(SubSeq(s, 1, Len(s) - 1)) * Len(IntName) + DigitVal(s[Len(s)])

NULL == <<"null">>

\* ---------------------------------------------------- list serialisation
RECURSIVE join(_)
join(items) ==
    IF Len(items) = 0 THEN <<>>
    ELSE IF Len(items) = 1 THEN items[1]
    ELSE items[1] \o <<",">> \o join(Tail(items))

\* a serialisation that leaves the separators out
serialize_without_separator(items) ==
    LET c[n \in 0..Len(items)] == IF n = 0 THEN <<>> ELSE c[n - 1] \o items[n]
    IN  c[Len(items)]

\* ",".join(items) if items else ""
serialize_list_for_firestore(items) ==
    IF Len(items) > 0 THEN join(items) ELSE <<>>

\* str.split(sep)
RECURSIVE splitOn(_, _)
splitOn(v, sep) ==
    IF \E i \in 1..Len(v) : v[i] = sep
    THEN LET i == CHOOSE k \in 1..Len(v) :
                     v[k] = sep /\ \A j \in 1..(k - 1) : v[j] # sep
         IN  <<SubSeq(v, 1, i - 1)>> \o splitOn(SubSeq(v, i + 1, Len(v)), sep)
    ELSE <<v>>

split(v) == splitOn(v, ",")

RECURSIVE lstrip(_)
lstrip(s) == IF Len(s) > 0 /\ s[1] = " " THEN lstrip(Tail(s)) ELSE s

RECURSIVE rstrip(_)
rstrip(s) ==
    IF Len(s) > 0 /\ s[Len(s)] = " " THEN rstrip(SubSeq(s, 1, Len(s) - 1)) ELSE s

strip(s) == rstrip(lstrip(s))

deserialize_list_from_firestore(value) ==
    IF value = <<>> \/ value = NULL THEN <<>>
    ELSE [i \in 1..Len(split(value)) |-> strip(split(value)[i])]

\* ------------------------------------------------------ version comparison
\* version strings, character by character
V759 == <<"7", ".", "5", ".", "9">>
V760 == <<"7", ".", "6", ".", "0">>
V710 == <<"7", ".", "1", "0">>
Versions == {V759, V760, V710}

\* the minimum version of the gate
MinVersion == V760

Max(a, b) == IF a > b THEN a ELSE b

\* parts.extend(['0'] * (max_len - len(parts)))
Pad(p, n) == [i \in 1..n |-> IF i <= Len(p) THEN p[i] ELSE <<"0">>]

\* a field compared by its first character only
FieldNumFirstChar(f) == IF isdigit(f) THEN DigitVal(f[1]) ELSE 0

\* int(part) if part.isdigit() else 0
FieldNum(f) == IF isdigit(f) THEN int(f) ELSE 0

\* 0 if equal, 1 if version1 < version2, 2 if version1 > version2
vercomp(version1, version2) ==
    IF version1 = version2 THEN 0
    ELSE LET v1_parts == splitOn(version1, ".")
             v2_parts == splitOn(version2, ".")
             max_len == Max(Len(v1_parts), Len(v2_parts))
             a == Pad(v1_parts, max_len)
             b == Pad(v2_parts, max_len)
             D == {i \in 1..max_len : FieldNum(a[i]) # FieldNum(b[i])}
         IN  IF D = {} THEN 0
             ELSE LET i == CHOOSE k \in D : \A j \in D : k <= j
                  IN  IF FieldNum(a[i]) > FieldNum(b[i]) THEN 2 ELSE 1

\* ------------------------------------------------------------------ state
VARIABLES
    pc,        \* position of the run inside provision()
    config,    \* ProvisioningConfig (the target), fixed for the run
    store,     \* Firestore: deployment -> key -> string
    cluster,   \* the external cluster as the qq CLI shows it
    nonempty,  \* GCS buckets that hold at least one object
    trace,     \* every status update, command, document write and marker, in order
    survey,    \* out_quorum, in_quorum, qfsd_version of survey_cluster_state
    flags,     \* operation_flags
    ids,       \* node ids recorded before a membership change
    obs,       \* last result of parse_quorum_details
    err,       \* message of the exception in flight
    run,       \* "first", or how the run before this one ended
    fields,    \* the fields of the last-run-status document: key -> status
    now,       \* the wall clock, in seconds
    input,     \* argument of the function under study
    result,    \* what it returned
    first_boot_flag,  \* whether the file FIRST_BOOT_FLAG exists on the node
    installed,        \* packages the node's package database holds
    attempt,          \* attempt of the retry loop of install_package
    other_version     \* target nodes that run a Qumulo Core version of their own

\* state outside a run of provision()
\* state of a cluster node that runs user-data.py
node == <<first_boot_flag, installed, attempt>>

aux == <<run, fields, now, input, result, node, other_version>>

vars == <<pc, config, store, cluster, nonempty, trace, survey, flags, ids, obs, err,
          run, fields, now, input, result, first_boot_flag, installed, attempt,
          other_version>>

Deployments == {"cur", "prev"}
Keys == {"uuid", "node-ips", "fault-domain-ids", "instance-ids", "creation-number-azs",
         "cluster-type", "soft-capacity-limit", "bucket-uris", "bucket-names",
         "new-cluster", "tunables", "float-ips", "floating-ip-count",
         "installed-version", "creation-version", "cluster-secrets-name"}

EmptyDoc == [k \in Keys |-> NULL]

\* FirestoreManager.get: the named deployment, or the current one
get(st, key, deployment_name) == st[deployment_name][key]
get_list(st, key, deployment_name) ==
    deserialize_list_from_firestore(get(st, key, deployment_name))

\* the deployment whose record the bucket and limit diff reads
OldDeployment(cfg) == IF cfg.replace_cluster THEN "prev" ELSE "cur"

\* node_ips_fault_ids = [f"{ip},{fid}" for ip, fid in zip(node_ips, fault_domain_ids)]
Min(a, b) == IF a < b THEN a ELSE b
node_ips_fault_ids(node_ips, fault_domain_ids) ==
    [i \in 1..Min(Len(node_ips), Len(fault_domain_ids)) |->
        [ip |-> node_ips[i], fid |-> fault_domain_ids[i]]]
PairIps(pairs) == {pairs[i].ip : i \in 1..Len(pairs)}

\* -------------------------------------------------------------- events
Ev(k, n, v) == [k |-> k, n |-> n, v |-> v]
Status(msg) == Ev("status", msg, <<>>)
Cmd(name, arg) == Ev("cmd", name, arg)
Put(key, value) == Ev("put", key, value)
put_list(key, value_list) == Put(key, serialize_list_for_firestore(value_list))
Begin(op) == Ev("begin", op, <<>>)
\* the membership fields of the current deployment's ClusterRecord
MembershipKeys == {"node-ips", "fault-domain-ids", "instance-ids"}
MembershipFields(st) == [k \in MembershipKeys |-> get(st, k, "cur")]
\* the marker of an operation that changes them, with what they held
BeginOver(op, st) == Ev("begin", op, MembershipFields(st))
\* the bucket fields of the deployment the bucket diff is made against
BucketKeys == {"bucket-names", "bucket-uris"}
BucketFields(cfg, st) == [k \in BucketKeys |-> get_list(st, k, OldDeployment(cfg))]
End(op) == Ev("end", op, <<>>)
Wait(host) == Ev("wait", "wait_for_active_quorum", host)

\* events that call out of the process and can fail
Fallible(e) == e.k \in {"status", "cmd", "put"}

MutatingCmds == {"create_object_backed_cluster",
                 "modify_object_backed_cluster_membership",
                 "add_object_storage_uris", "capacity_clamp_set",
                 "network_v3_put_config", "change_password"}

IsMutating(e) == e.k = "cmd" /\ e.n \in MutatingCmds
IsFailure(e) == e.k = "fail"

\* run_command / FirestoreManager.put / update_status raise on failure
Failed(e) == Ev("fail", e.n, e.k)

\* a cluster command whose failure is swallowed: the run goes on
AfterFailureIgnored(e, next) == IF IsMutating(e) THEN next ELSE "except"

\* a failure that leaves provision() without passing its handler
AfterFailureUnhandled(e, next) == "raised"

\* where control goes when a call raises: nothing in the run catches it
\* before provision()'s handler
AfterFailure(e, next) == "except"

RECURSIVE StoreAfter(_, _)
StoreAfter(st, evs) ==
    IF Len(evs) = 0 THEN st
    ELSE LET e == evs[1]
             st1 == IF e.k = "put"
                    THEN [st EXCEPT !["cur"][e.n] = e.v]
                    ELSE st
         IN  StoreAfter(st1, Tail(evs))

\* the effect a successful command has on the cluster
CmdEffect(c, e) ==
    IF e.k # "cmd" THEN c
    ELSE CASE e.n = "create_object_backed_cluster" ->
                [c EXCEPT !.pending = PairIps(e.v.nodes), !.busy = TRUE,
                          !.uris = Range(e.v.uris), !.clamp = e.v.clamp,
                          !.pw = "default"]
           [] e.n = "modify_object_backed_cluster_membership" ->
                [c EXCEPT !.pending = PairIps(e.v), !.busy = TRUE]
           [] e.n = "add_object_storage_uris" ->
                [c EXCEPT !.uris = c.uris \cup Range(e.v)]
           [] e.n = "capacity_clamp_set" -> [c EXCEPT !.clamp = e.v]
           [] e.n = "network_v3_put_config" -> [c EXCEPT !.flips = e.v]
           [] e.n = "change_password" -> [c EXCEPT !.pw = "admin"]
           [] OTHER -> c

RECURSIVE ClusterAfter(_, _)
ClusterAfter(c, evs) ==
    IF Len(evs) = 0 THEN c ELSE ClusterAfter(CmdEffect(c, evs[1]), Tail(evs))

\* Execute the calls evs in order.  The first one that fails raises; if all
\* succeed the code either raises raise itself or goes on at next.
Step(evs, next, raise) ==
    \E n \in 0..Len(evs) :
        LET done == SubSeq(evs, 1, n) IN
        /\ n < Len(evs) => Fallible(evs[n + 1])
        /\ store' = StoreAfter(store, done)
        /\ cluster' = ClusterAfter(cluster, done)
        /\ IF n < Len(evs)
           THEN /\ trace' = trace \o done \o <<Failed(evs[n + 1])>>
                /\ pc' = AfterFailure(evs[n + 1], next)
                /\ err' = evs[n + 1].n
           ELSE /\ trace' = trace \o done
                /\ IF raise # ""
                   THEN pc' = "except" /\ err' = raise
                   ELSE pc' = next /\ err' = err

Take(s, n) == SubSeq(s, 1, Min(n, Len(s)))
Drop(s, n) == SubSeq(s, Min(n, Len(s)) + 1, Len(s))

\* ------------------------------------------- determine_cluster_operations
RECURSIVE NotIn(_, _)
\* [x for x in s if x not in S]
NotIn(s, S) ==
    IF Len(s) = 0 THEN <<>>
    ELSE (IF s[1] \in S THEN <<>> ELSE <<s[1]>>) \o NotIn(Tail(s), S)

NoFlags == [new_cluster |-> FALSE, add_nodes |-> FALSE, remove_nodes |-> FALSE,
            add_buckets |-> FALSE, increase_limit |-> FALSE]

\* all nodes out of quorum: new cluster
IsNewCluster(cfg, out_quorum, in_quorum) ==
    out_quorum = Len(cfg.node_ips) /\ in_quorum = 0

\* an addition list that does not consult the record
upgrade_ips_all(new_ips, old_ips) == new_ips

upgrade_ips(new_ips, old_ips) == NotIn(new_ips, Range(old_ips))

\* an addition test that compares the lengths of the lists
AddNodesNeededByLength(new_ips, old_ips) == Len(new_ips) > Len(old_ips)

AddNodesNeeded(new_ips, old_ips) == Len(upgrade_ips(new_ips, old_ips)) > 0

\* a removal test that is off by one
RemoveNodesNeededOffByOne(old_ips, target_node_count) == Len(old_ips) >= target_node_count

RemoveNodesNeeded(old_ips, target_node_count) == Len(old_ips) > target_node_count

\* a diff that keeps every target URI
all_bucket_uris(cfg, st) == cfg.bucket_uris

new_bucket_names(cfg, st) ==
    NotIn(cfg.bucket_names, Range(get_list(st, "bucket-names", OldDeployment(cfg))))
new_bucket_uris(cfg, st) ==
    NotIn(cfg.bucket_uris, Range(get_list(st, "bucket-uris", OldDeployment(cfg))))

\* a bucket diff that is made for every plan
BucketCheckAlways(new_cluster, replace_cluster) == TRUE

\* bucket additions are looked at unless this is a new, non-replacement cluster
BucketCheckApplies(new_cluster, replace_cluster) == ~new_cluster \/ replace_cluster

\* a bucket addition flagged whatever the diff
AddBucketsNeededAlways(cfg, st) == TRUE

\* if new_bucket_names and new_bucket_uris
AddBucketsNeeded(cfg, st) ==
    Len(new_bucket_names(cfg, st)) > 0 /\ Len(new_bucket_uris(cfg, st)) > 0

\* a limit test that ignores the bucket addition flagged in this run
IncreaseLimitNeededAlone(cfg, st, add_buckets) ==
    LET old_limit_str == get(st, "soft-capacity-limit", OldDeployment(cfg)) IN
    /\ old_limit_str # NULL
    /\ cfg.capacity_limit > int(old_limit_str)

IncreaseLimitNeeded(cfg, st, add_buckets) ==
    LET old_limit_str == get(st, "soft-capacity-limit", OldDeployment(cfg)) IN
    /\ old_limit_str # NULL
    /\ cfg.capacity_limit > int(old_limit_str)
    /\ ~add_buckets

\* the flags of a call that returns (no fatal error on the way)
determine_cluster_operations(cfg, st, out_quorum, in_quorum) ==
    LET new_cluster == IsNewCluster(cfg, out_quorum, in_quorum)
        known == ~new_cluster /\ get(st, "node-ips", "cur") # NULL
        old_ips == get_list(st, "node-ips", "cur")
        add_nodes == known /\ AddNodesNeeded(cfg.node_ips, old_ips)
        remove_nodes == known /\ RemoveNodesNeeded(old_ips, cfg.target_node_count)
        diff == BucketCheckApplies(new_cluster, cfg.replace_cluster)
        add_buckets == diff /\ AddBucketsNeeded(cfg, st)
        increase_limit == diff /\ IncreaseLimitNeeded(cfg, st, add_buckets)
    IN  [new_cluster |-> new_cluster, add_nodes |-> add_nodes,
         remove_nodes |-> remove_nodes, add_buckets |-> add_buckets,
         increase_limit |-> increase_limit]

\* parse_quorum_details: node ids in the membership, in quorum, out of quorum
QuorumView(c) ==
    [all |-> {Qid(ip) : ip \in c.all},
     in |-> {Qid(ip) : ip \in c.inq},
     out |-> {Qid(ip) : ip \in c.all \ c.inq}]

NoView == [all |-> {}, in |-> {}, out |-> {}]

\* no survey made, or its result out of scope
NoSurvey == [out |-> 0, in |-> 0, ver |-> <<>>]

\* ------------------------------------------------------ initialize_and_validate
\* validate_connectivity, after the first-run status: MQ is required, the
\* internet check only warns
\* the hard check fails when the internet is unreachable as well
ConnectivityErrorStrict(mq, inet) == IF mq /\ inet THEN "" ELSE "MQ not reachable"

\* only the MQ check raises
ConnectivityError(mq, inet) == IF mq THEN "" ELSE "MQ not reachable"

ValidateConnectivity ==
    /\ pc = "start"
    /\ \E mq, inet \in BOOLEAN :
        LET evs == <<Status("null")>> \o
                   (IF mq
                    THEN <<Status("BOOTED. MQ up for metrics."),
                           IF inet THEN Status("BOOTED. Internet up.")
                                   ELSE Status("BOOTED. Internet NOT reachable.")>>
                    ELSE <<Status("BOOTED. MQ NOT reachable. Aborting deployment.")>>)
        IN  Step(evs, "creds", ConnectivityError(mq, inet))
    /\ UNCHANGED <<aux, config, nonempty, survey, flags, ids, obs>>

\* install_required_packages and setup_admin_password
SetupCredentials ==
    /\ pc = "creds"
    /\ LET evs == <<Status("Installing jq and reading secrets"),
                    Cmd("apt-get install", <<>>)>> \o
                  (IF config.replace_cluster
                   THEN <<Cmd("getsecret", "prev"), Cmd("secrets versions add", "cur")>>
                   ELSE <<Cmd("getsecret", "cur")>>)
       IN  Step(evs, "nodes", "")
    /\ UNCHANGED <<aux, config, nonempty, survey, flags, ids, obs>>

\* wait_for_nodes_ready: returns once every node answered the admin port
\* probe with HTTP 200 (chkurl never raises); qq is fetched from the first
WaitNodesReady ==
    /\ pc = "nodes"
    /\ LET per(i) == (IF i = 2 THEN <<Status("Qumulo Core running on node 1.")>> ELSE <<>>)
                     \o <<Ev("probe200", "chkurl", config.node_ips[i])>>
                     \o (IF i = 1 THEN <<Cmd("getqq", config.node_ips[i])>> ELSE <<>>)
           all[i \in 0..Len(config.node_ips)] ==
               IF i = 0 THEN <<Status("Waiting for node 1 to run Qumulo Core.")>>
               ELSE all[i - 1] \o per(i)
       IN  Step(all[Len(config.node_ips)], "survey", "")
    /\ UNCHANGED <<aux, config, nonempty, survey, flags, ids, obs>>

\* a count that leaves out the probes that exited with an error
RECURSIVE probe_counts_errors_dropped(_, _, _, _)
probe_counts_errors_dropped(node_ips, active, errs, i) ==
    IF i > Len(node_ips) THEN [out |-> 0, in |-> 0]
    ELSE LET rest == probe_counts_errors_dropped(node_ips, active, errs, i + 1)
         IN  IF node_ips[i] \in errs THEN rest
             ELSE IF node_ips[i] \notin active THEN [rest EXCEPT !.out = @ + 1]
             ELSE [rest EXCEPT !.in = @ + 1]

\* the loop of survey_cluster_state from node i on: a probe that raises
\* ProvisioningError, or whose output lacks ACTIVE, counts as out of quorum
RECURSIVE probe_counts(_, _, _, _)
probe_counts(node_ips, active, errs, i) ==
    IF i > Len(node_ips) THEN [out |-> 0, in |-> 0]
    ELSE LET rest == probe_counts(node_ips, active, errs, i + 1)
         IN  IF node_ips[i] \in errs THEN [rest EXCEPT !.out = @ + 1]
             ELSE IF node_ips[i] \notin active THEN [rest EXCEPT !.out = @ + 1]
             ELSE [rest EXCEPT !.in = @ + 1]

SurveyVersions == {V759, V760}
AddVersions == {V760, V710}

\* get_qfsd_version of a node that is to be added
NodeVersion(node_ip) == IF node_ip \in other_version THEN V710 ELSE V760

\* one of the nodes the target adds to the persisted list, or none, runs a
\* version of its own
InitAddVersions ==
    other_version \in
        {{}} \cup
        (IF config.replace_cluster \/ get(store, "node-ips", "cur") = NULL THEN {}
         ELSE {{ip} : ip \in {x \in Range(config.node_ips) :
                                x \notin Range(get_list(store, "node-ips", "cur"))}})

\* survey_cluster_state.  A probe that exits with an error raises
\* ProvisioningError, which the loop catches: the node counts as out of quorum
\* (errs).  A probe that does not return within qq_command's timeout raises
\* subprocess.TimeoutExpired, which run_command does not convert and the loop
\* does not catch: that is the failing command of Step.
survey_cluster_state ==
    /\ pc = "survey"
    /\ \E errs \in SUBSET Range(config.node_ips), v \in SurveyVersions :
        LET n == Len(config.node_ips)
            active == {i \in 1..n : config.node_ips[i] \notin errs
                                    /\ config.node_ips[i] \in cluster.inq}
            probes == [i \in 1..n |-> Cmd("node_state_get", config.node_ips[i])]
            evs == <<Status("Checking quorum state and boot status")>> \o probes
                   \o (IF n > 0 THEN <<Cmd("version", config.node_ips[1])>> ELSE <<>>)
                   \o <<Status("Qumulo Core version running on all nodes."),
                        Put("installed-version", v)>>
                   \o (IF get(store, "creation-version", "cur") = NULL
                       THEN <<Put("creation-version", v)>> ELSE <<>>)
            counts == probe_counts(config.node_ips, cluster.inq, errs, 1)
        IN  /\ Step(evs, "gate", "")
            /\ survey' = IF pc' = "gate"
                         THEN [out |-> counts.out, in |-> counts.in, ver |-> v]
                         ELSE survey
    /\ UNCHANGED <<aux, config, nonempty, flags, ids, obs>>

MinVersionMsg == "Qumulo Core version >= 7.6.0 is required."

\* qfsd_version >= 7.6.0
VersionOk(qfsd_version) ==
    vercomp(qfsd_version, MinVersion) = 0 \/ vercomp(qfsd_version, MinVersion) = 2

validate_qfsd_version ==
    /\ pc = "gate"
    /\ IF VersionOk(survey.ver)
       THEN Step(<<>>, "plan", "")
       ELSE Step(<<Status(MinVersionMsg)>>, "plan", MinVersionMsg)
    /\ UNCHANGED <<aux, config, nonempty, survey, flags, ids, obs>>

\* determine_cluster_operations with its calls and fatal errors
PartialQuorumMsg == "One or more nodes out of quorum in existing cluster."

\* a node out of quorum goes unnoticed
PartialQuorumIgnored(view) == FALSE

\* if len(out_nodes) > 0
PartialQuorum(view) == view.out # {}

Plan ==
    /\ pc = "plan"
    /\  LET new_cluster == IsNewCluster(config, survey.out, survey.in)
            view == QuorumView(cluster)
            ups == IF get(store, "node-ips", "cur") # NULL
                   THEN upgrade_ips(config.node_ips, get_list(store, "node-ips", "cur"))
                   ELSE <<>>
            add_ver == IF Len(ups) > 0 THEN NodeVersion(ups[1]) ELSE <<>>
            mismatch == Len(ups) > 0 /\ get(store, "installed-version", "cur") # add_ver
            evs == IF new_cluster
                   THEN <<Status("All nodes out of quorum, NEW CLUSTER")>>
                   ELSE <<Cmd("login", config.node1_ip),
                          Cmd("quorum_details", config.node1_ip)>> \o
                        (IF PartialQuorum(view)
                         THEN <<Status(PartialQuorumMsg)>>
                         ELSE <<Status("Cluster in full quorum")>> \o
                              (IF Len(ups) > 0 THEN <<Cmd("version", ups[1])>> ELSE <<>>) \o
                              (IF mismatch THEN <<Status("Can't add nodes running another version")>>
                               ELSE <<>>))
            raise == IF new_cluster THEN ""
                     ELSE IF PartialQuorum(view)
                          THEN PartialQuorumMsg
                     ELSE IF mismatch THEN "Can't add nodes running another version"
                     ELSE ""
        IN  /\ Step(evs, "execute", raise)
            /\ flags' = IF pc' = "execute"
                        THEN determine_cluster_operations(config, store, survey.out, survey.in)
                        ELSE flags
    /\ UNCHANGED <<aux, config, nonempty, survey, ids, obs>>

\* provision(): except Exception: update_status(ERROR ...); raise
ExceptHandler ==
    /\ pc = "except"
    /\ \E ok \in BOOLEAN :
        IF ok
        THEN trace' = Append(trace, Ev("status", "ERROR", err)) /\ err' = err
        ELSE /\ trace' = Append(trace, Failed(Status("ERROR")))
             /\ err' = "Failed to put Firestore status"
    /\ pc' = "raised"
    /\ UNCHANGED <<aux, config, store, cluster, nonempty, survey, flags, ids, obs>>

\* ----------------------------------------------------- operation helpers
\* a check that lists the buckets and never rejects one
check_buckets_empty_listing_only(bucket_names, ne) ==
    [evs |-> [i \in 1..Len(bucket_names) |-> Cmd("storage objects list", bucket_names[i])],
     raise |-> ""]

\* check_buckets_empty: list each bucket in order, raise at the first that
\* holds an object
check_buckets_empty(bucket_names, ne) ==
    LET bad == {i \in 1..Len(bucket_names) : bucket_names[i] \in ne}
        stop == IF bad = {} THEN Len(bucket_names)
                ELSE CHOOSE i \in bad : \A j \in bad : i <= j
    IN  [evs |-> [i \in 1..stop |-> Cmd("storage objects list", bucket_names[i])],
         raise |-> IF bad = {} THEN "" ELSE "Bucket NOT EMPTY"]

\* apply_cluster_tunables up to the quorum bounce
\* tunables whose bandwidth refill does not look at the disk count
apply_cluster_tunables_any_disk(qq_host, refill_iops, refill_bps, disk_count) ==
    (IF refill_iops # 0
     THEN <<Cmd("PUT credit_accountant_io_refill_iops", refill_iops)>> ELSE <<>>) \o
    (IF refill_bps # 0
     THEN <<Cmd("PUT credit_accountant_th_refill_blocks_per_second",
                (refill_bps * 1000 * 1000) \div 4096)>>
     ELSE <<>>) \o
    <<Cmd("abandon-series", qq_host), Wait(qq_host)>>

apply_cluster_tunables(qq_host, refill_iops, refill_bps, disk_count) ==
    (IF refill_iops # 0
     THEN <<Cmd("PUT credit_accountant_io_refill_iops", refill_iops)>> ELSE <<>>) \o
    (IF refill_bps # 0 /\ disk_count # 0
     THEN <<Cmd("PUT credit_accountant_th_refill_blocks_per_second",
                (refill_bps * 1000 * 1000) \div 4096)>>
     ELSE <<>>) \o
    <<Cmd("abandon-series", qq_host), Wait(qq_host)>>

\* a floating IP set-up that does not look at the pool
apply_floating_ips_unguarded(cfg) ==
    <<Cmd("network_v3_put_config", cfg.floating_ips),
      Status("Successfully applied floating IPs"),
      put_list("float-ips", cfg.floating_ips),
      Put("floating-ip-count", str(Len(cfg.floating_ips)))>>

apply_initial_floating_ips(cfg) ==
    IF Len(cfg.floating_ips) = 0 \/ cfg.floating_ips[1] = <<>> THEN <<>>
    ELSE <<Cmd("network_v3_put_config", cfg.floating_ips),
           Status("Successfully applied floating IPs"),
           put_list("float-ips", cfg.floating_ips),
           Put("floating-ip-count", str(Len(cfg.floating_ips)))>>

\* the get_config command carries the floating IPs it read
maybe_update_floating_ips(cfg, current_flips) ==
    <<Cmd("network_v3_get_config", current_flips)>> \o
    (IF Len(current_flips) = 0 THEN apply_initial_floating_ips(cfg)
     ELSE IF current_flips # cfg.floating_ips
     THEN <<Cmd("network_v3_put_config", cfg.floating_ips),
            Status("Successfully updated floating IPs"),
            put_list("float-ips", cfg.floating_ips),
            Put("floating-ip-count", str(Len(cfg.floating_ips)))>>
     ELSE <<>>)

\* a capacity update that announces nothing before its quorum wait
update_capacity_limit_silent(cfg) ==
    <<Cmd("set_log_level", "QM_LOG_DEBUG"),
      Cmd("capacity_clamp_set", cfg.capacity_limit),
      Wait(cfg.node1_ip)>>

\* update_capacity_limit up to its quorum wait
update_capacity_limit(cfg) ==
    <<Status("Increasing soft capacity limit"),
      Cmd("set_log_level", "QM_LOG_DEBUG"),
      Cmd("capacity_clamp_set", cfg.capacity_limit),
      Wait(cfg.node1_ip)>>

\* ... and after it
capacity_limit_done(cfg) ==
    <<Cmd("set_log_level", "QM_LOG_INFO"),
      Put("soft-capacity-limit", str(cfg.capacity_limit))>>

\* an exit condition that looks at the size of the membership only
QuorumConvergedBySize(view, n) == Cardinality(view.all) = n

\* the validation loop's exit condition
QuorumConverged(view, n) ==
    /\ Cardinality(view.all) = n
    /\ Cardinality(view.in) = n
    /\ Cardinality(view.out) = 0

\* a verification that never finds a recorded id
OldNodePresentNever(all_nodes, old_ids) == FALSE

\* an id recorded before the change is still in all_nodes
OldNodePresent(all_nodes, old_ids) == \E node_id \in all_nodes : node_id \in old_ids

\* wait_for_active_quorum(host) followed by the calls evs.  A probe that
\* fails is retried; a probe that exceeds its timeout is not caught.
AfterQuorum(host, evs, next) ==
    \/ /\ host \in cluster.inq
       /\ Step(evs, next, "")
    \/ /\ trace' = Append(trace, Failed(Cmd("node_state_get", host)))
       /\ pc' = "except"
       /\ err' = "node_state_get timed out"
       /\ UNCHANGED <<store, cluster>>

WaitPcs == {"create_wait", "create_tun_wait", "replace_wait", "replace_poll",
            "replace_tun_wait", "add_wait", "remove_wait", "remove_poll",
            "cap_wait", "bkt_wait"}

\* what a pending formation or membership change may have led to so far
Outcomes(c) ==
    LET req == c.pending
        old == c.all \ req
        U == c.all \cup req
    IN  {[all |-> req, inq |-> req, busy |-> FALSE]}
        \cup {[all |-> U, inq |-> U, busy |-> TRUE]}
        \cup {[all |-> req, inq |-> req \ {x}, busy |-> TRUE] : x \in req}
        \cup {[all |-> (req \ {r}) \cup {o}, inq |-> (req \ {r}) \cup {o}, busy |-> FALSE] :
                 r \in req, o \in old}

\* the cluster reconfigures while the controller waits
ClusterReconfigure ==
    /\ pc \in WaitPcs
    /\ cluster.busy
    /\ \E o \in Outcomes(cluster) :
         cluster' = [cluster EXCEPT !.all = o.all, !.inq = o.inq, !.busy = o.busy]
    /\ UNCHANGED <<aux, pc, config, store, nonempty, trace, survey, flags, ids, obs, err>>

\* ------------------------------------------------ execute_cluster_operations
\* a stage order that reconciles floating IPs before removing nodes
NextStageFlipsFirst(stage) ==
    CASE stage \in {"create", "replace", "remove"} -> "cap"
      [] stage = "add" -> "flips"
      [] stage = "flips" -> "remove"
      [] stage = "cap" -> "buckets"
      [] stage = "buckets" -> "labels"
      [] stage = "labels" -> "finish"

\* the stage the executor goes on to once a stage has returned
NextStage(stage) ==
    CASE stage \in {"create", "replace", "flips"} -> "cap"
      [] stage = "add" -> "remove"
      [] stage = "remove" -> "flips"
      [] stage = "cap" -> "buckets"
      [] stage = "buckets" -> "labels"
      [] stage = "labels" -> "finish"

\* out_quorum and in_quorum are not passed on to the executor
NoNewNodesMsg == "Cannot replace cluster without deploying new nodes"

\* an executor that treats a replacement target with nodes in quorum as an
\* existing cluster
DispatchAnyTarget ==
    /\ pc = "execute"
    /\ IF flags.new_cluster
       THEN Step(<<>>, IF config.replace_cluster THEN "replace" ELSE "create", "")
       ELSE Step(<<Cmd("login", config.node1_ip)>>, "add", "")
    /\ survey' = NoSurvey
    /\ UNCHANGED <<aux, config, nonempty, flags, ids, obs>>

Dispatch ==
    /\ pc = "execute"
    /\ IF flags.new_cluster
       THEN Step(<<>>, IF config.replace_cluster THEN "replace" ELSE "create", "")
       ELSE IF config.replace_cluster
            THEN Step(<<>>, "add", NoNewNodesMsg)
            ELSE Step(<<Cmd("login", config.node1_ip)>>, "add", "")
    /\ survey' = NoSurvey
    /\ UNCHANGED <<aux, config, nonempty, flags, ids, obs>>

create_new_cluster ==
    /\ pc = "create"
    /\ LET chk == check_buckets_empty(config.bucket_names, nonempty)
           form == <<Status("Forming first quorum and configuring cluster"),
                     Cmd("set_log_level", "QM_LOG_DEBUG"),
                     Cmd("create_object_backed_cluster",
                         [nodes |-> node_ips_fault_ids(config.node_ips, config.fault_domain_ids),
                          uris |-> config.bucket_uris,
                          clamp |-> config.capacity_limit]),
                     Wait(config.node1_ip)>>
           evs == <<Begin("create")>> \o chk.evs \o (IF chk.raise = "" THEN form ELSE <<>>)
       IN  Step(evs, "create_wait", chk.raise)
    /\ UNCHANGED <<aux, config, nonempty, survey, flags, ids, obs>>

CreatePersist ==
    /\ pc = "create_wait"
    /\ LET evs == <<Cmd("node_state_get", config.node1_ip),
                    Put("uuid", <<"uuid">>),
                    put_list("node-ips", config.node_ips),
                    put_list("fault-domain-ids", config.fault_domain_ids),
                    put_list("instance-ids", config.instance_ids),
                    Put("creation-number-azs", <<"1">>),
                    Put("cluster-type", <<"CNQ=Hot, GCS=Standard">>),
                    Put("soft-capacity-limit", str(config.capacity_limit)),
                    put_list("bucket-uris", config.bucket_uris),
                    put_list("bucket-names", config.bucket_names),
                    Put("new-cluster", <<"false">>),
                    Status("Setting cluster tunables if necessary"),
                    Cmd("login default", config.node1_ip)>> \o
                  apply_cluster_tunables(config.node1_ip, config.tun_refill_iops,
                                         config.tun_refill_bps, config.tun_disk_count)
       IN  AfterQuorum(config.node1_ip, evs, "create_tun_wait")
    /\ UNCHANGED <<aux, config, nonempty, survey, flags, ids, obs>>

\* a finish that rotates the credential before the floating IPs are applied
CreateFinishRotateFirst ==
    /\ pc = "create_tun_wait"
    /\ LET evs == <<Cmd("set_log_level", "QM_LOG_INFO"),
                    Put("tunables", <<"tunables">>),
                    Cmd("change_password", config.node1_ip)>> \o
                  apply_initial_floating_ips(config) \o
                  <<End("create")>>
       IN  AfterQuorum(config.node1_ip, evs, NextStage("create"))
    /\ UNCHANGED <<aux, config, nonempty, survey, flags, ids, obs>>

CreateFinish ==
    /\ pc = "create_tun_wait"
    /\ LET evs == <<Cmd("set_log_level", "QM_LOG_INFO"),
                    Put("tunables", <<"tunables">>)>> \o
                  apply_initial_floating_ips(config) \o
                  <<Cmd("change_password", config.node1_ip), End("create")>>
       IN  AfterQuorum(config.node1_ip, evs, NextStage("create"))
    /\ UNCHANGED <<aux, config, nonempty, survey, flags, ids, obs>>

\* a test for the prior record that looks at its node-ips only
PriorRecordMissingIps(st) == get(st, "node-ips", "prev") = NULL

\* existing_ips_str == "null" or existing_ids_str == "null"
PriorRecordMissing(st) ==
    \/ get(st, "node-ips", "prev") = NULL
    \/ get(st, "instance-ids", "prev") = NULL

replace_existing_cluster ==
    /\ pc = "replace"
    /\ LET missing == PriorRecordMissing(store)
           existing_ips == get_list(store, "node-ips", "prev")
           probes == [i \in 1..Len(existing_ips) |-> Cmd("node_state_get", existing_ips[i])]
           evs == <<BeginOver("replace", store)>> \o
                  (IF missing THEN <<>>
                   ELSE <<Status("Detected CLUSTER REPLACE. Updating firewall rule."),
                          Cmd("firewall-rules update", "prev")>> \o probes \o
                        <<Status("Detected CLUSTER REPLACE. Adding new nodes to quorum."),
                          Cmd("login", existing_ips[1]),
                          Cmd("set_log_level", "QM_LOG_DEBUG"),
                          Cmd("modify_object_backed_cluster_membership",
                              node_ips_fault_ids(config.node_ips, config.fault_domain_ids)),
                          Status("Detected CLUSTER REPLACE. Waiting for new quorum."),
                          Wait(config.node1_ip)>>)
       IN  /\ Step(evs, "replace_wait",
                   IF missing THEN "Cannot find existing cluster information for replacement"
                   ELSE "")
           /\ ids' = IF pc' = "replace_wait"
                     THEN {Qid(ip) : ip \in Range(existing_ips)} ELSE ids
    /\ UNCHANGED <<aux, config, nonempty, survey, flags, obs>>

ReplaceWait ==
    /\ pc = "replace_wait"
    /\ AfterQuorum(config.node1_ip,
                   <<Status("Detected CLUSTER REPLACE. New quorum formed, validating.")>>,
                   "replace_poll")
    /\ UNCHANGED <<aux, config, nonempty, survey, flags, ids, obs>>

\* one pass of the validation loop that ends it (other passes sleep and retry)
ReplacePoll ==
    /\ pc = "replace_poll"
    /\ Step(<<Cmd("quorum_details", config.node1_ip)>>, "replace_verify", "")
    /\ pc' = "replace_verify" =>
           QuorumConverged(QuorumView(cluster), Len(config.node_ips))
    /\ obs' = IF pc' = "replace_verify" THEN QuorumView(cluster) ELSE obs
    /\ UNCHANGED <<aux, config, nonempty, survey, flags, ids>>

ReplaceVerify ==
    /\ pc = "replace_verify"
    /\ LET all_nodes == QuorumView(cluster).all
           bad == OldNodePresent(all_nodes, ids)
           evs == <<Cmd("quorum_details", config.node1_ip)>> \o
                  (IF bad THEN <<>>
                   ELSE <<Status("Detected CLUSTER REPLACE: New quorum formed with new nodes."),
                          Cmd("node_state_get", config.node1_ip),
                          Put("uuid", <<"uuid">>),
                          put_list("node-ips", config.node_ips),
                          put_list("fault-domain-ids", config.fault_domain_ids),
                          put_list("instance-ids", config.instance_ids),
                          Put("creation-number-azs", <<"1">>),
                          Put("cluster-type", get(store, "cluster-type", "prev")),
                          Put("soft-capacity-limit", str(config.capacity_limit)),
                          put_list("bucket-uris", config.bucket_uris),
                          put_list("bucket-names", config.bucket_names),
                          Cmd("login", config.node1_ip)>> \o
                        maybe_update_floating_ips(config, cluster.flips) \o
                        <<Put("new-cluster", <<"false">>),
                          Status("Setting cluster tunables if necessary")>> \o
                        apply_cluster_tunables(config.node1_ip, config.tun_refill_iops,
                                               config.tun_refill_bps, config.tun_disk_count))
       IN  Step(evs, "replace_tun_wait",
                IF bad THEN "Old Node not removed from quorum" ELSE "")
    /\ UNCHANGED <<aux, config, nonempty, survey, flags, ids, obs>>

ReplaceFinish ==
    /\ pc = "replace_tun_wait"
    /\ AfterQuorum(config.node1_ip,
                   <<Cmd("set_log_level", "QM_LOG_INFO"), End("replace")>>,
                   NextStage("replace"))
    /\ UNCHANGED <<aux, config, nonempty, survey, flags, ids, obs>>

add_cluster_nodes ==
    /\ pc = "add"
    /\ IF ~flags.add_nodes THEN Step(<<>>, NextStage("add"), "")
       ELSE LET ups == upgrade_ips(config.node_ips, get_list(store, "node-ips", "cur"))
            IN  Step(<<Begin("add_nodes"),
                       Status("Quorum already exists, adding nodes to cluster"),
                       Cmd("modify_object_backed_cluster_membership",
                           node_ips_fault_ids(config.node_ips, config.fault_domain_ids)),
                       Wait(ups[1])>>,
                     "add_wait", "")
    /\ UNCHANGED <<aux, config, nonempty, survey, flags, ids, obs>>

AddPersist ==
    /\ pc = "add_wait"
    /\ LET ups == upgrade_ips(config.node_ips, get_list(store, "node-ips", "cur"))
       IN  AfterQuorum(ups[1],
                       <<put_list("node-ips", config.node_ips),
                         put_list("fault-domain-ids", config.fault_domain_ids),
                         put_list("instance-ids", config.instance_ids),
                         End("add_nodes")>>,
                       NextStage("add"))
    /\ UNCHANGED <<aux, config, nonempty, survey, flags, ids, obs>>

\* fault domains that are not cut to the target node count
all_fault_ids(cfg) == cfg.fault_domain_ids

remaining_node_ips(cfg) == Take(cfg.node_ips, cfg.target_node_count)
remaining_fault_ids(cfg) == Take(cfg.fault_domain_ids, cfg.target_node_count)
remaining_instance_ids(cfg) == Take(cfg.instance_ids, cfg.target_node_count)
\* existing_node_ids[target_node_count:]
removed_node_ids(cfg) == {Qid(ip) : ip \in Range(Drop(cfg.node_ips, cfg.target_node_count))}

remove_cluster_nodes ==
    /\ pc = "remove"
    /\ IF ~flags.remove_nodes THEN Step(<<>>, NextStage("remove"), "") /\ ids' = ids
       ELSE LET probes == [i \in 1..Len(config.node_ips) |->
                               Cmd("node_state_get", config.node_ips[i])]
                evs == <<BeginOver("remove_nodes", store)>> \o probes \o
                       <<Status("Quorum already exists, removing nodes from cluster."),
                         Cmd("modify_object_backed_cluster_membership",
                             node_ips_fault_ids(remaining_node_ips(config),
                                                remaining_fault_ids(config))),
                         Wait(config.node1_ip)>>
            IN  /\ Step(evs, "remove_wait", "")
                /\ ids' = IF pc' = "remove_wait" THEN removed_node_ids(config) ELSE ids
    /\ UNCHANGED <<aux, config, nonempty, survey, flags, obs>>

RemoveWait ==
    /\ pc = "remove_wait"
    /\ AfterQuorum(config.node1_ip,
                   <<Status("New quorum formed, validating node removal.")>>, "remove_poll")
    /\ UNCHANGED <<aux, config, nonempty, survey, flags, ids, obs>>

RemovePoll ==
    /\ pc = "remove_poll"
    /\ Step(<<Cmd("quorum_details", config.node1_ip)>>, "remove_verify", "")
    /\ pc' = "remove_verify" =>
           QuorumConverged(QuorumView(cluster), Len(remaining_node_ips(config)))
    /\ obs' = IF pc' = "remove_verify" THEN QuorumView(cluster) ELSE obs
    /\ UNCHANGED <<aux, config, nonempty, survey, flags, ids>>

RemoveVerify ==
    /\ pc = "remove_verify"
    /\ LET all_nodes == QuorumView(cluster).all
           bad == OldNodePresent(all_nodes, ids)
           evs == <<Cmd("quorum_details", config.node1_ip)>> \o
                  (IF bad THEN <<>>
                   ELSE <<Status("New quorum formed with node(s) as requested."),
                          put_list("node-ips", remaining_node_ips(config)),
                          put_list("fault-domain-ids", remaining_fault_ids(config)),
                          put_list("instance-ids", remaining_instance_ids(config)),
                          End("remove_nodes")>>)
       IN  Step(evs, NextStage("remove"),
                IF bad THEN "Old Node not removed from quorum" ELSE "")
    /\ UNCHANGED <<aux, config, nonempty, survey, flags, ids, obs>>

FloatingIps ==
    /\ pc = "flips"
    /\ Step(<<Begin("floating_ips")>> \o maybe_update_floating_ips(config, cluster.flips)
            \o <<End("floating_ips")>>, NextStage("flips"), "")
    /\ UNCHANGED <<aux, config, nonempty, survey, flags, ids, obs>>

CapacityIncrease ==
    /\ pc = "cap"
    /\ IF ~flags.increase_limit THEN Step(<<>>, NextStage("cap"), "")
       ELSE Step(<<Begin("capacity")>> \o update_capacity_limit(config), "cap_wait", "")
    /\ UNCHANGED <<aux, config, nonempty, survey, flags, ids, obs>>

CapacityDone ==
    /\ pc = "cap_wait"
    /\ AfterQuorum(config.node1_ip,
                   capacity_limit_done(config) \o <<End("capacity")>>,
                   NextStage("cap"))
    /\ UNCHANGED <<aux, config, nonempty, survey, flags, ids, obs>>

add_object_buckets ==
    /\ pc = "buckets"
    /\ IF ~flags.add_buckets THEN Step(<<>>, NextStage("buckets"), "")
       ELSE LET chk == check_buckets_empty(new_bucket_names(config, store), nonempty)
                evs == <<Ev("begin", "add_buckets", BucketFields(config, store))>> \o
                       chk.evs \o
                       (IF chk.raise # "" THEN <<>>
                        ELSE <<Status("Adding buckets for persistent storage"),
                               Cmd("set_log_level", "QM_LOG_DEBUG"),
                               Cmd("add_object_storage_uris", new_bucket_uris(config, store)),
                               put_list("bucket-uris", config.bucket_uris),
                               put_list("bucket-names", config.bucket_names)>> \o
                             update_capacity_limit(config))
            IN  Step(evs, "bkt_wait", chk.raise)
    /\ UNCHANGED <<aux, config, nonempty, survey, flags, ids, obs>>

BucketsDone ==
    /\ pc = "bkt_wait"
    /\ AfterQuorum(config.node1_ip,
                   capacity_limit_done(config) \o <<End("add_buckets")>>,
                   NextStage("buckets"))
    /\ UNCHANGED <<aux, config, nonempty, survey, flags, ids, obs>>

update_instance_labels ==
    /\ pc = "labels"
    /\ LET per(i) == <<Cmd("node_state_get", config.node_ips[i]),
                       Cmd("compute instances list", config.instance_ids[i]),
                       Cmd("compute instances update", config.instance_ids[i])>>
           all[i \in 0..Len(config.instance_ids)] ==
               IF i = 0 THEN <<Begin("labels"), Status("Updating cluster labels")>>
               ELSE all[i - 1] \o per(i)
       IN  Step(all[Len(config.instance_ids)] \o <<End("labels")>>,
                NextStage("labels"), "")
    /\ UNCHANGED <<aux, config, nonempty, survey, flags, ids, obs>>

Finish ==
    /\ pc = "finish"
    /\ Step(<<Status("Shutting down provisioning instance")>>, "done", "")
    /\ UNCHANGED <<aux, config, nonempty, survey, flags, ids, obs>>

\* ------------------------------------------------------------ initial states
BName == <<"b1", "b2", "b3">>
UName == <<"gs://b1", "gs://b2", "gs://b3">>
BucketNames(k) == [i \in 1..k |-> <<BName[i]>>]
BucketUris(k) == [i \in 1..k |-> <<UName[i]>>]
BucketCounts == {1, 2}
FlipChoices == {<<>>, << <<"f1">> >>}
TunChoices == {0, 1}
Limits == 1..MaxLimit
Segment(a, b) == IpList(a..b)

MkConfig(ips, tnc, nb, limit, fl, repl, tun) ==
    [node_ips |-> ips,
     node1_ip |-> IF Len(ips) > 0 THEN ips[1] ELSE <<>>,
     fault_domain_ids |-> [i \in 1..Len(ips) |-> FdOf(ips[i])],
     instance_ids |-> [i \in 1..Len(ips) |-> InstOf(ips[i])],
     target_node_count |-> tnc,
     bucket_names |-> BucketNames(nb),
     bucket_uris |-> BucketUris(nb),
     capacity_limit |-> limit,
     floating_ips |-> fl,
     replace_cluster |-> repl,
     tun_refill_iops |-> tun,
     tun_refill_bps |-> tun,
     tun_disk_count |-> tun]

\* the ClusterRecord a completed run leaves for these nodes, buckets and limit
RecordOf(ips, nb, limit, fl) ==
    [EmptyDoc EXCEPT
        !["uuid"] = <<"uuid">>,
        !["node-ips"] = serialize_list_for_firestore(ips),
        !["fault-domain-ids"] =
            serialize_list_for_firestore([i \in 1..Len(ips) |-> FdOf(ips[i])]),
        !["instance-ids"] =
            serialize_list_for_firestore([i \in 1..Len(ips) |-> InstOf(ips[i])]),
        !["creation-number-azs"] = <<"1">>,
        !["cluster-type"] = <<"CNQ=Hot, GCS=Standard">>,
        !["soft-capacity-limit"] = str(limit),
        !["bucket-uris"] = serialize_list_for_firestore(BucketUris(nb)),
        !["bucket-names"] = serialize_list_for_firestore(BucketNames(nb)),
        !["new-cluster"] = <<"false">>,
        !["tunables"] = <<"tunables">>,
        !["float-ips"] = IF Len(fl) > 0 THEN serialize_list_for_firestore(fl) ELSE NULL,
        !["floating-ip-count"] = IF Len(fl) > 0 THEN str(Len(fl)) ELSE NULL,
        !["installed-version"] = V760,
        !["creation-version"] = V760,
        !["cluster-secrets-name"] = <<"secret">>]

NoCluster == [all |-> {}, inq |-> {}, pending |-> {}, busy |-> FALSE,
              uris |-> {}, clamp |-> 0, flips |-> <<>>, pw |-> "none"]

ClusterOf(ips, inq, nb, limit, fl, pw) ==
    [all |-> Range(ips), inq |-> inq, pending |-> {}, busy |-> FALSE,
     uris |-> Range(BucketUris(nb)), clamp |-> limit, flips |-> fl, pw |-> pw]

\* the last-run-status document does not exist
NoDocument == <<>>

\* a node on which user-data.py has not run
InitNode ==
    /\ first_boot_flag = FALSE
    /\ installed = {}
    /\ attempt = 0

\* every target node runs the version the cluster runs
InitVersions == other_version = {}

InitAux ==
    /\ run = "first"
    /\ fields = NoDocument
    /\ now = 0
    /\ input = <<>>
    /\ result = <<>>
    /\ InitNode

InitRun ==
    /\ InitAux
    /\ pc = "start"
    /\ trace = <<>>
    /\ survey = NoSurvey
    /\ flags = NoFlags
    /\ ids = {}
    /\ obs = NoView
    /\ err = ""

\* first boot of a new deployment: no cluster, no record
FreshChoices ==
    {[nb |-> nb, ne |-> ne, fl |-> <<>>, tun |-> 0] :
        nb \in BucketCounts, ne \in SUBSET Range(BucketNames(2))}
    \cup {[nb |-> 1, ne |-> {}, fl |-> fl, tun |-> tun] :
        fl \in FlipChoices, tun \in TunChoices}

InitFresh ==
    \E k \in NodeIdx, c \in FreshChoices :
        /\ config = MkConfig(Segment(1, k), k, c.nb, 1, c.fl, FALSE, c.tun)
        /\ store = [d \in Deployments |-> EmptyDoc]
        /\ cluster = NoCluster
        /\ nonempty = c.ne

\* target bucket count with the emptiness of the bucket that would be new
BucketChoices == {[nb |-> 1, ne |-> {}], [nb |-> 2, ne |-> {}],
                  [nb |-> 2, ne |-> {<<BName[2]>>}]}

\* a later boot of a deployment whose cluster exists and is recorded: the
\* node lists change with the buckets and the limit, the floating IPs and
\* the recorded limit vary for a stable node list, the floating IPs for a
\* stable bucket list
InitExisting ==
    \E j \in NodeIdx, k \in NodeIdx, fl \in FlipChoices, tfl \in FlipChoices,
       b \in BucketChoices, pl \in {1, MaxLimit}, tl \in Limits :
      \E tnc \in 1..k :
        /\ (j # k \/ tnc # k) => (fl = <<>> /\ tfl = <<>> /\ pl = 1)
        /\ (fl # <<>> \/ tfl # <<>>) => b.nb = 1
        /\ config = MkConfig(Segment(1, k), tnc, b.nb, tl, tfl, FALSE, 0)
        /\ store = [d \in Deployments |->
                       IF d = "cur" THEN RecordOf(Segment(1, j), 1, pl, fl) ELSE EmptyDoc]
        /\ cluster = ClusterOf(Segment(1, j), Range(Segment(1, j)), 1, pl, fl, "admin")
        /\ nonempty = {<<BName[1]>>} \cup b.ne

\* the same with the last recorded node out of quorum
InitDegraded ==
    \E j \in NodeIdx, k \in NodeIdx :
        /\ config = MkConfig(Segment(1, k), k, 1, 1, <<>>, FALSE, 0)
        /\ store = [d \in Deployments |->
                       IF d = "cur" THEN RecordOf(Segment(1, j), 1, 1, <<>>) ELSE EmptyDoc]
        /\ cluster = ClusterOf(Segment(1, j), Range(Segment(1, j - 1)), 1, 1, <<>>, "admin")
        /\ nonempty = {<<BName[1]>>}

\* a boot after a run that formed the cluster and stopped before recording it
InitInterrupted ==
    \E k \in NodeIdx, ne \in SUBSET {<<BName[1]>>} :
        /\ config = MkConfig(Segment(1, k), k, 1, 1, <<>>, FALSE, 0)
        /\ store = [d \in Deployments |-> EmptyDoc]
        /\ cluster = ClusterOf(Segment(1, k), Range(Segment(1, k)), 1, 1, <<>>, "default")
        /\ nonempty = ne

\* first boot of a deployment that replaces the nodes of a prior deployment
InitReplace ==
    \E j \in NodeIdx, k \in NodeIdx, fl \in FlipChoices, tfl \in FlipChoices,
       b \in BucketChoices, tl \in Limits, known \in BOOLEAN, tun \in TunChoices,
       part \in BOOLEAN :
        /\ j < k
        /\ part => ~known
        /\ (fl # <<>> \/ tfl # <<>> \/ tun # 0 \/ ~known) => (b.nb = 1 /\ tl = 1)
        /\ (tun # 0 \/ ~known) => (fl = <<>> /\ tfl = <<>>)
        /\ ~known => tun = 0
        /\ config = MkConfig(Segment(j + 1, k), k - j, b.nb, tl, tfl, TRUE, tun)
        /\ store = [d \in Deployments |->
                       IF d = "prev" /\ known THEN RecordOf(Segment(1, j), 1, 1, fl)
                       ELSE IF d = "prev" /\ part
                       THEN [RecordOf(Segment(1, j), 1, 1, fl) EXCEPT !["instance-ids"] = NULL]
                       ELSE EmptyDoc]
        /\ cluster = ClusterOf(Segment(1, j), Range(Segment(1, j)), 1, 1, fl, "admin")
        /\ nonempty = {<<BName[1]>>} \cup b.ne

\* a later boot of a deployment that has replaced a prior one
InitReplaced ==
    \E j \in NodeIdx, k \in NodeIdx :
        /\ j < k
        /\ config = MkConfig(Segment(j + 1, k), k - j, 1, 1, <<>>, TRUE, 0)
        /\ store = [d \in Deployments |->
                       IF d = "prev" THEN RecordOf(Segment(1, j), 1, 1, <<>>)
                       ELSE RecordOf(Segment(j + 1, k), 1, 1, <<>>)]
        /\ cluster = ClusterOf(Segment(j + 1, k), Range(Segment(j + 1, k)), 1, 1, <<>>, "admin")
        /\ nonempty = {<<BName[1]>>}

Init ==
    /\ InitRun
    /\ (InitFresh \/ InitExisting \/ InitDegraded \/ InitInterrupted \/ InitReplace \/ InitReplaced)
    /\ InitAddVersions

Next ==
    \/ ValidateConnectivity
    \/ SetupCredentials
    \/ WaitNodesReady
    \/ survey_cluster_state
    \/ validate_qfsd_version
    \/ Plan
    \/ Dispatch
    \/ create_new_cluster
    \/ CreatePersist
    \/ CreateFinish
    \/ replace_existing_cluster
    \/ ReplaceWait
    \/ ReplacePoll
    \/ ReplaceVerify
    \/ ReplaceFinish
    \/ add_cluster_nodes
    \/ AddPersist
    \/ remove_cluster_nodes
    \/ RemoveWait
    \/ RemovePoll
    \/ RemoveVerify
    \/ FloatingIps
    \/ CapacityIncrease
    \/ CapacityDone
    \/ add_object_buckets
    \/ BucketsDone
    \/ update_instance_labels
    \/ Finish
    \/ ExceptHandler
    \/ ClusterReconfigure

Spec == Init /\ [][Next]_vars

\* ------------------------------------------- the planner on its own inputs
\* determine_cluster_operations called on any target, any persisted node
\* list and any survey result the cluster can give
InitPlan ==
    /\ InitAux
    /\ pc = "plan"
    /\ trace = <<>>
    /\ flags = NoFlags
    /\ ids = {}
    /\ obs = NoView
    /\ err = ""
    /\ \E T \in IpLists \ {<<>>}, P \in IpLists, repl \in BOOLEAN, dq \in BOOLEAN,
          b \in BucketChoices, tl \in Limits :
        \E tnc \in 1..Len(T) :
          LET inq == IF dq THEN Range(P) \ {P[Len(P)]} ELSE Range(P)
              rec == IF Len(P) > 0 THEN RecordOf(P, 1, 1, <<>>) ELSE EmptyDoc
          IN  /\ dq => Len(P) > 0
              /\ repl => Range(T) \cap Range(P) = {}
              /\ config = MkConfig(T, tnc, b.nb, tl, <<>>, repl, 0)
              /\ store = [d \in Deployments |->
                             IF d = OldDeployment(config) THEN rec ELSE EmptyDoc]
              /\ cluster = IF Len(P) > 0 THEN ClusterOf(P, inq, 1, 1, <<>>, "admin")
                           ELSE NoCluster
              /\ nonempty = (IF Len(P) > 0 THEN {<<BName[1]>>} ELSE {}) \cup b.ne
              /\ \E k \in 0..Cardinality(Range(T) \cap inq) :
                    survey = [out |-> Len(T) - k, in |-> k, ver |-> V760]
    /\ InitAddVersions

NextPlan ==
    \/ Plan
    \/ ExceptHandler

SpecPlan == InitPlan /\ [][NextPlan]_vars

\* ------------------------------------------------------------ a second run
\* names of the buckets the cluster is attached to: it may have written to them
AttachedNames(c) ==
    {BucketNames(Len(BName))[i] : i \in {k \in 1..Len(UName) : <<UName[k]>> \in c.uris}}

\* The provisioner instance stops, at the end of its run or when it is
\* terminated between two steps, and boots again with the same target.  The
\* ClusterRecord stays as it is; a membership change in flight may have gone
\* on, and the cluster may have written to its buckets.
Restart ==
    /\ run = "first"
    /\ pc # "start"
    /\ run' = IF pc = "done" THEN "after_success" ELSE "after_stop"
    /\ pc' = "start"
    /\ trace' = <<>>
    /\ survey' = NoSurvey
    /\ flags' = NoFlags
    /\ ids' = {}
    /\ obs' = NoView
    /\ err' = ""
    /\ \E o \in (IF cluster.busy THEN Outcomes(cluster) ELSE {})
                 \cup {[all |-> cluster.all, inq |-> cluster.inq, busy |-> cluster.busy]} :
         cluster' = [cluster EXCEPT !.all = o.all, !.inq = o.inq, !.busy = o.busy]
    /\ \E ne \in {nonempty, nonempty \cup AttachedNames(cluster)} : nonempty' = ne
    /\ UNCHANGED <<config, store, fields, now, input, result, node, other_version>>


\* a first boot, or a later boot over a recorded cluster, and then the boot
\* after it
InitRerun ==
    /\ InitRun
    /\ (InitFresh \/ InitExisting \/ InitReplace)
    /\ InitAddVersions

NextRerun ==
    \/ ValidateConnectivity
    \/ SetupCredentials
    \/ WaitNodesReady
    \/ survey_cluster_state
    \/ validate_qfsd_version
    \/ Plan
    \/ Dispatch
    \/ create_new_cluster
    \/ CreatePersist
    \/ CreateFinish
    \/ replace_existing_cluster
    \/ ReplaceWait
    \/ ReplacePoll
    \/ ReplaceVerify
    \/ ReplaceFinish
    \/ add_cluster_nodes
    \/ AddPersist
    \/ remove_cluster_nodes
    \/ RemoveWait
    \/ RemovePoll
    \/ RemoveVerify
    \/ FloatingIps
    \/ CapacityIncrease
    \/ CapacityDone
    \/ add_object_buckets
    \/ BucketsDone
    \/ update_instance_labels
    \/ Finish
    \/ ExceptHandler
    \/ ClusterReconfigure
    \/ Restart

SpecRerun == InitRerun /\ [][NextRerun]_vars

\* ---------------------------------------------------------- the status log
MaxTime == 2
MaxUpdates == 3

StatusMsgs == {"BOOTED. MQ NOT reachable. Aborting deployment.", "ERROR: MQ not reachable"}

LastRunStatus == <<"last-run-status">>

\* now.strftime("%b") + "_" + now.strftime("%d_%H%M%S"): one key per second
field_key(t) == <<"Jul_17_12000">> \o str(t)

\* The document after a successful PATCH.  existing_doc is None when the
\* document is absent and when the GET fails; the PATCH carries every field
\* it was given and so replaces the document.
put_status_with_timestamp(doc, read_ok, status, t) ==
    LET existing == IF read_ok /\ DOMAIN doc # {}
                    THEN doc
                    ELSE [k \in {LastRunStatus} |-> "null"]
    IN  [k \in DOMAIN existing \cup {field_key(t)} |->
            IF k = field_key(t) THEN status ELSE existing[k]]

\* a run's environment when nothing of it matters
InitEnv ==
    /\ config = MkConfig(Segment(1, 1), 1, 1, 1, <<>>, FALSE, 0)
    /\ store = [d \in Deployments |-> EmptyDoc]
    /\ cluster = NoCluster
    /\ nonempty = {}
    /\ trace = <<>>
    /\ survey = NoSurvey
    /\ flags = NoFlags
    /\ ids = {}
    /\ obs = NoView
    /\ err = ""

InitStatus ==
    /\ InitEnv
    /\ InitAux
    /\ InitVersions
    /\ pc = "status"

\* FirestoreManager.update_status: the trace keeps the key of an update that
\* succeeded
update_status ==
    /\ pc = "status"
    /\ Len(trace) < MaxUpdates
    /\ \E status \in StatusMsgs, read_ok \in BOOLEAN, write_ok \in BOOLEAN :
        IF write_ok
        THEN /\ fields' = put_status_with_timestamp(fields, read_ok, status, now)
             /\ trace' = Append(trace, Ev("status", status, field_key(now)))
        ELSE /\ fields' = fields
             /\ trace' = Append(trace, Failed(Status(status)))
    /\ UNCHANGED <<pc, config, store, cluster, nonempty, survey, flags, ids, obs, err,
                   run, now, input, result, node, other_version>>

\* a second passes
Tick ==
    /\ pc = "status"
    /\ now < MaxTime
    /\ now' = now + 1
    /\ UNCHANGED <<pc, config, store, cluster, nonempty, trace, survey, flags, ids, obs,
                   err, run, fields, input, result, node, other_version>>

NextStatus ==
    \/ update_status
    \/ Tick

SpecStatus == InitStatus /\ [][NextStatus]_vars

\* ------------------------------------------------- lists in the ClusterRecord
MaxListLen == 2
MaxStrLen == 2

\* an ordinary character, the separator, white space
Chars == {"a", ",", " "}

RECURSIVE StringsUpTo(_)
StringsUpTo(n) ==
    IF n = 0 THEN {<<>>}
    ELSE LET S == StringsUpTo(n - 1) IN S \cup {Append(x, c) : x \in S, c \in Chars}

Strings == StringsUpTo(MaxStrLen) \cup {NULL}

RECURSIVE ListsUpTo(_)
ListsUpTo(n) ==
    IF n = 0 THEN {<<>>}
    ELSE LET S == ListsUpTo(n - 1) IN S \cup {Append(l, x) : l \in S, x \in Strings}

InitList ==
    /\ InitEnv
    /\ run = "first" /\ fields = NoDocument /\ now = 0
    /\ InitNode
    /\ InitVersions
    /\ pc = "list"
    /\ input \in ListsUpTo(MaxListLen)
    /\ result = <<>>

\* FirestoreManager.put_list of the list under study
PutList ==
    /\ pc = "list"
    /\ store' = StoreAfter(store, <<put_list("node-ips", input)>>)
    /\ pc' = "stored"
    /\ UNCHANGED <<config, cluster, nonempty, trace, survey, flags, ids, obs, err, aux>>

\* FirestoreManager.get_list of the field just written
GetList ==
    /\ pc = "stored"
    /\ result' = get_list(store, "node-ips", "cur")
    /\ pc' = "listed"
    /\ UNCHANGED <<config, store, cluster, nonempty, trace, survey, flags, ids, obs, err,
                   run, fields, now, input, node, other_version>>

NextList ==
    \/ PutList
    \/ GetList

SpecList == InitList /\ [][NextList]_vars

\* ------------------------------------------------ versions before the gate
MaxVerLen == 3

VerChars == {"0", "1", "."}

RECURSIVE VerStringsUpTo(_)
VerStringsUpTo(n) ==
    IF n = 0 THEN {<<>>}
    ELSE LET S == VerStringsUpTo(n - 1) IN S \cup {Append(x, c) : x \in S, c \in VerChars}

VerStrings == VerStringsUpTo(MaxVerLen) \cup Versions

InitVer ==
    /\ InitEnv
    /\ run = "first" /\ fields = NoDocument /\ now = 0
    /\ InitNode
    /\ InitVersions
    /\ pc = "vercomp"
    /\ input \in VerStrings \X VerStrings
    /\ result = <<>>

\* vercomp(version1, version2) of the pair under study; version1 is taken as
\* the version the survey returned
Compare ==
    /\ pc = "vercomp"
    /\ result' = vercomp(input[1], input[2])
    /\ survey' = [NoSurvey EXCEPT !.ver = input[1]]
    /\ pc' = "gate"
    /\ UNCHANGED <<config, store, cluster, nonempty, trace, flags, ids, obs, err,
                   run, fields, now, input, node, other_version>>

NextVer ==
    \/ Compare
    \/ validate_qfsd_version
    \/ ExceptHandler

SpecVer == InitVer /\ [][NextVer]_vars

\* ------------------------------------------------------------- properties
\* positions of the trace that hold an event of kind k named n
At(k, n) == {i \in 1..Len(trace) : trace[i].k = k /\ trace[i].n = n}

Began(op) == At("begin", op) # {}
Ended(op) == At("end", op) # {}

\* ClusterRecord writes made after an operation began
PutsSince(op) ==
    {j \in 1..Len(trace) : trace[j].k = "put" /\ \E i \in At("begin", op) : i < j}

TargetBucketNonEmpty ==
    \E i \in 1..Len(config.bucket_names) : config.bucket_names[i] \in nonempty

\* C1: CreateCluster lists every target bucket before the formation command,
\* and when a target bucket holds an object it issues no formation command
\* and writes no ClusterRecord field: the run ends fatally.
C1_NoFormationOverData ==
    Began("create") =>
        /\ \A f \in At("cmd", "create_object_backed_cluster") :
              \A b \in 1..Len(config.bucket_names) :
                  \E l \in At("cmd", "storage objects list") :
                      l < f /\ trace[l].v = config.bucket_names[b]
        /\ TargetBucketNonEmpty =>
              /\ At("cmd", "create_object_backed_cluster") = {}
              /\ PutsSince("create") = {}
              /\ pc \in {"except", "raised"}

\* a creation rejected because a target bucket holds data
C1_Witness ==
    /\ Began("create")
    /\ TargetBucketNonEmpty
    /\ pc = "raised"
    /\ \E i \in At("status", "ERROR") : trace[i].v = "Bucket NOT EMPTY"

\* the nodes RemoveNodes is to take out: the target list beyond target_node_count
RemovedIps == Range(Drop(config.node_ips, config.target_node_count))

\* C2: when RemoveNodes has returned, the membership has exactly
\* target_node_count members, all in quorum, and none of the removed nodes;
\* a run that found a removed node still present is fatal and has not
\* recorded the removal.
C2_RemoveNodesSafety ==
    /\ (pc = "flips" /\ flags.remove_nodes) =>
          /\ Cardinality(cluster.all) = config.target_node_count
          /\ cluster.inq = cluster.all
          /\ cluster.all \cap RemovedIps = {}
          /\ Ended("remove_nodes")
    /\ (Began("remove_nodes") /\ cluster.all \cap RemovedIps # {}) => ~Ended("remove_nodes")
    /\ (Began("remove_nodes") /\ err = "Old Node not removed from quorum") =>
          /\ pc \in {"except", "raised"}
          /\ PutsSince("remove_nodes") = {}

\* a removal of at least one node that returned
C2_Witness ==
    /\ pc = "flips"
    /\ flags.remove_nodes
    /\ RemovedIps # {}
    /\ Ended("remove_nodes")

\* node ids of the prior deployment's nodes
OldIds == {Qid(ip) : ip \in Range(get_list(store, "node-ips", "prev"))}

\* C3: when ReplaceCluster has written the new record, the membership it
\* observed had all-count and in-count equal to the number of target nodes,
\* out-count zero and none of the prior deployment's node ids; a run that
\* found an old id is fatal and has written nothing.
C3_ReplaceClusterSafety ==
    /\ (Began("replace") /\ PutsSince("replace") # {}) =>
          /\ Cardinality(obs.all) = Len(config.node_ips)
          /\ Cardinality(obs.in) = Len(config.node_ips)
          /\ obs.out = {}
          /\ obs.all \cap OldIds = {}
          /\ ids = OldIds
    /\ (Began("replace") /\ err = "Old Node not removed from quorum") =>
          /\ pc \in {"except", "raised"}
          /\ PutsSince("replace") = {}

\* a replacement that recorded the new nodes
C3_Witness ==
    /\ Began("replace")
    /\ \E j \in PutsSince("replace") : trace[j].n = "node-ips"
    /\ OldIds # {}
    /\ pc = "replace_tun_wait"

\* the planner has returned its flags
Planned == pc = "execute"

SurveyAllOut == IsNewCluster(config, survey.out, survey.in)

\* C4 as stated: with zero nodes in quorum and every target node out, the
\* plan is new_cluster alone, for replacement targets too.
C4_NewClusterAlone ==
    (Planned /\ SurveyAllOut) => flags = [NoFlags EXCEPT !.new_cluster = TRUE]

\* the bucket and limit diff against the record the planner reads
FreshBuckets ==
    /\ \E i \in 1..Len(config.bucket_names) :
          config.bucket_names[i] \notin
              Range(get_list(store, "bucket-names", OldDeployment(config)))
    /\ \E i \in 1..Len(config.bucket_uris) :
          config.bucket_uris[i] \notin
              Range(get_list(store, "bucket-uris", OldDeployment(config)))

LimitRaised ==
    /\ get(store, "soft-capacity-limit", OldDeployment(config)) # NULL
    /\ config.capacity_limit > int(get(store, "soft-capacity-limit", OldDeployment(config)))

\* C4: with zero nodes in quorum and every target node out, the plan sets
\* new_cluster and neither add_nodes nor remove_nodes; add_buckets and
\* increase_limit are unset for a target that is not a replacement, and for
\* a replacement they follow the diff against the prior deployment's record.
C4_NewClusterPlan ==
    (Planned /\ SurveyAllOut) =>
        /\ flags.new_cluster /\ ~flags.add_nodes /\ ~flags.remove_nodes
        /\ ~config.replace_cluster => (~flags.add_buckets /\ ~flags.increase_limit)
        /\ config.replace_cluster =>
              /\ flags.add_buckets <=> FreshBuckets
              /\ flags.increase_limit <=> (LimitRaised /\ ~FreshBuckets)

\* a replacement planned as a new cluster together with a bucket addition
C4_Witness ==
    /\ Planned /\ SurveyAllOut
    /\ config.replace_cluster
    /\ flags.new_cluster /\ flags.add_buckets

\* the persisted node-ip list, when the planner found one for a cluster
\* that is in full quorum
PersistedIps == get_list(store, "node-ips", "cur")
PlannedExisting ==
    Planned /\ ~SurveyAllOut /\ get(store, "node-ips", "cur") # NULL

\* addresses the run adds, and addresses it removes
Additions ==
    IF flags.add_nodes THEN {ip \in Range(config.node_ips) : ip \notin Range(PersistedIps)} ELSE {}
Removals == IF flags.remove_nodes THEN RemovedIps ELSE {}

AddCase == \E i \in 1..Len(config.node_ips) : config.node_ips[i] \notin Range(PersistedIps)
RemoveCase == Len(PersistedIps) > config.target_node_count

C6_NeverAddAndRemove == Planned => ~(flags.add_nodes /\ flags.remove_nodes)

\* C6: a plan has both add_nodes and remove_nodes exactly when the cluster
\* exists with a persisted list, the target has an IP that is not persisted
\* and the persisted list is longer than target_node_count.
C6_AddAndRemove ==
    Planned =>
        ((flags.add_nodes /\ flags.remove_nodes) <=>
            (PlannedExisting /\ AddCase /\ RemoveCase))

\* a plan with both flags
C6_Witness == Planned /\ flags.add_nodes /\ flags.remove_nodes /\ ~flags.new_cluster

\* C7: no plan has both increase_limit and add_buckets; increase_limit is set
\* only when the target limit is greater than the persisted one and
\* add_buckets is not set; a run issues at most one capacity_clamp_set.
C7_LimitOrBuckets ==
    /\ ~(flags.increase_limit /\ flags.add_buckets)
    /\ (Planned /\ flags.increase_limit) => (LimitRaised /\ ~FreshBuckets)
    /\ Cardinality(At("cmd", "capacity_clamp_set")) <= 1

\* a run that raised the limit with its one clamp command
C7_Witness ==
    /\ flags.increase_limit
    /\ Cardinality(At("cmd", "capacity_clamp_set")) = 1
    /\ Ended("capacity")
    /\ pc = "done"

\* the operations of the executor in their order; of the first two one runs
Ops == <<"replace", "create", "add_nodes", "remove_nodes", "floating_ips",
         "capacity", "add_buckets", "labels">>
OpRank(op) == CHOOSE i \in 1..Len(Ops) : Ops[i] = op
Begins == {i \in 1..Len(trace) : trace[i].k = "begin"}

\* C8: operations begin in the fixed order, each after the previous one has
\* ended; a new cluster is replaced or created and nothing is added, removed
\* or reconciled; only flagged operations run, and a run that completes has
\* run every flagged one, floating-IP reconciliation for an existing cluster,
\* and the label refresh last.
C8_FixedOrder ==
    /\ \A i, j \in Begins :
          i < j => /\ OpRank(trace[i].n) < OpRank(trace[j].n)
                   /\ \E e \in At("end", trace[i].n) : i < e /\ e < j
    /\ ~(Began("create") /\ Began("replace"))
    /\ Began("replace") => (flags.new_cluster /\ config.replace_cluster)
    /\ Began("create") => (flags.new_cluster /\ ~config.replace_cluster)
    /\ (Begins # {} /\ flags.new_cluster) =>
          \A i \in Begins : trace[i].n \in {"replace", "create"} \/
              \E f \in At("end", "replace") \cup At("end", "create") : f < i
    /\ (Began("add_nodes") \/ Began("remove_nodes") \/ Began("floating_ips")) =>
          ~flags.new_cluster
    /\ Began("add_nodes") => flags.add_nodes
    /\ Began("remove_nodes") => flags.remove_nodes
    /\ Began("capacity") => flags.increase_limit
    /\ Began("add_buckets") => flags.add_buckets
    /\ pc = "done" =>
          /\ flags.new_cluster => (Ended("replace") \/ Ended("create"))
          /\ ~flags.new_cluster =>
                /\ flags.add_nodes => Ended("add_nodes")
                /\ flags.remove_nodes => Ended("remove_nodes")
                /\ Ended("floating_ips")
          /\ flags.increase_limit => Ended("capacity")
          /\ flags.add_buckets => Ended("add_buckets")
          /\ \E l \in At("end", "labels") :
                \A i \in 1..Len(trace) : trace[i].k \in {"begin", "end"} => i <= l

\* a completed run that added nodes, removed nodes and added a bucket
C8_Witness ==
    /\ pc = "done"
    /\ Ended("add_nodes") /\ Ended("remove_nodes") /\ Ended("floating_ips")
    /\ Ended("add_buckets") /\ Ended("labels")

\* positions where a cluster-mutating command failed
MutatingFailures ==
    {i \in 1..Len(trace) :
        trace[i].k = "fail" /\ trace[i].v = "cmd" /\ trace[i].n \in MutatingCmds}

\* C9: after a cluster-mutating command has failed the run issues no command
\* and writes no ClusterRecord field: all that follows is the handler's one
\* status entry, and the run is over.
C9_AbortOnMutatingFailure ==
    \A i \in MutatingFailures :
        /\ pc \in {"except", "raised"}
        /\ Len(trace) <= i + 1
        /\ \A j \in (i + 1)..Len(trace) :
              \/ trace[j].k = "status" /\ trace[j].n = "ERROR"
              \/ trace[j].k = "fail" /\ trace[j].v = "status"

\* a run aborted by a failed mutating command after an earlier one took effect
C9_Witness ==
    /\ pc = "raised"
    /\ \E i \in MutatingFailures : \E h \in 1..(i - 1) : IsMutating(trace[h])

Completion == At("status", "Shutting down provisioning instance")

\* C10 as stated: a run that ended with an error has an entry for it in the
\* status log; the completion status is there only after a run without error.
C10_ErrorAlwaysLogged ==
    /\ pc = "raised" => At("status", "ERROR") # {}
    /\ Completion # {} => pc = "done"

\* C10: a run that ended with an error has appended an entry describing it as
\* its last status, unless that status write failed, and then the error that
\* leaves is the failure of the write; the completion status is appended only
\* by a run in which nothing failed and every stage returned.
C10_ErrorLogged ==
    /\ pc = "raised" =>
          \/ trace[Len(trace)] = Ev("status", "ERROR", err)
          \/ /\ trace[Len(trace)] = Failed(Status("ERROR"))
             /\ err = "Failed to put Firestore status"
    /\ Completion # {} =>
          /\ pc = "done"
          /\ Ended("labels")
          /\ \A i \in 1..Len(trace) : trace[i].k # "fail" /\ trace[i].n # "ERROR"
    /\ pc = "done" => Completion = {Len(trace)}

\* a run that failed while planning and logged the error
C10_Witness ==
    /\ pc = "raised"
    /\ trace[Len(trace)] =
          Ev("status", "ERROR", "One or more nodes out of quorum in existing cluster.")

\* the bucket fields of the ClusterRecord have not been written by this run
BucketsUntouched == At("put", "bucket-names") \cup At("put", "bucket-uris") = {}

\* the target's bucket names and URIs are the persisted ones
PersistedBucketsEqual ==
    /\ Range(config.bucket_names) =
          Range(get_list(store, "bucket-names", OldDeployment(config)))
    /\ Range(config.bucket_uris) =
          Range(get_list(store, "bucket-uris", OldDeployment(config)))

\* C13: when the target's bucket name and URI sets equal the persisted sets
\* the plan does not flag add_buckets and the run issues no
\* add_object_storage_uris command; such a command is issued only by a run
\* whose plan flagged add_buckets.
C13_NoAttachWhenEqual ==
    /\ (Planned /\ PersistedBucketsEqual) => ~flags.add_buckets
    /\ (BucketsUntouched /\ PersistedBucketsEqual) =>
          At("cmd", "add_object_storage_uris") = {}
    /\ At("cmd", "add_object_storage_uris") # {} => flags.add_buckets

\* a run over an existing cluster with an unchanged bucket set that went
\* through every stage
C13_Witness ==
    /\ pc = "done"
    /\ BucketsUntouched
    /\ PersistedBucketsEqual
    /\ Began("add_nodes")
    /\ At("cmd", "add_object_storage_uris") = {}

\* ClusterRecord fields that describe nodes or buckets
NodeOrBucketKeys == {"uuid", "node-ips", "fault-domain-ids", "instance-ids",
                     "bucket-names", "bucket-uris"}

\* C14: over a pre-existing cluster whose detailed membership shows a node
\* out of quorum the plan does not return: the run has appended the status
\* entry that tells the operator, has issued no cluster-mutating command
\* (membership, buckets, capacity clamp, network) and has written no node or
\* bucket field of the ClusterRecord, and it ends fatally.
C14_PartialQuorumFatal ==
    /\ (Planned /\ ~SurveyAllOut) => QuorumView(cluster).out = {}
    /\ \A i \in At("status", PartialQuorumMsg) :
          /\ pc \in {"except", "raised"}
          /\ QuorumView(cluster).out # {}
          /\ \A j \in 1..Len(trace) :
                /\ ~IsMutating(trace[j])
                /\ trace[j].k = "put" => trace[j].n \notin NodeOrBucketKeys
          /\ \A j \in (i + 1)..Len(trace) : trace[j].n = "ERROR"

\* a run over a recorded cluster with a node out of quorum, ended by the plan
C14_Witness ==
    /\ pc = "raised"
    /\ At("status", PartialQuorumMsg) # {}
    /\ err = PartialQuorumMsg
    /\ get(store, "node-ips", "cur") # NULL
    /\ QuorumView(cluster).out # {}

MqDown == At("status", "BOOTED. MQ NOT reachable. Aborting deployment.")
InternetDown == At("status", "BOOTED. Internet NOT reachable.")

\* C15: when the mandatory endpoint is unreachable the run appends the status
\* entry that says so and aborts before any command and any ClusterRecord
\* write; when only the internet is unreachable the run appends a warning
\* status after the entry for the mandatory endpoint and goes on to the
\* credential setup.
C15_ConnectivityGate ==
    /\ \A i \in MqDown :
          /\ pc \in {"except", "raised"}
          /\ \A j \in 1..Len(trace) : trace[j].k \notin {"cmd", "put"}
          /\ \A j \in (i + 1)..Len(trace) : trace[j].n = "ERROR"
    /\ (pc = "except" /\ err = "MQ not reachable") => Len(trace) \in MqDown
    /\ \A i \in InternetDown :
          /\ i > 1 /\ trace[i - 1] = Status("BOOTED. MQ up for metrics.")
          /\ i = Len(trace) => pc = "creds"
          /\ MqDown = {}

\* a run stopped by the unreachable mandatory endpoint
C15_Witness ==
    /\ pc = "raised"
    /\ MqDown # {}
    /\ trace[Len(trace)] = Ev("status", "ERROR", "MQ not reachable")

\* a run that went on after the internet warning
C15_WarningPassed ==
    /\ InternetDown # {}
    /\ pc = "done"

\* probes of the survey that raised out of survey_cluster_state
SurveyProbeFailures ==
    {i \in 1..Len(trace) :
        /\ trace[i] = Ev("fail", "node_state_get", "cmd")
        /\ \A j \in 1..i : trace[j] # Status("Qumulo Core version running on all nodes.")}

\* C16 as stated: no outcome of a probe ends the survey; the run goes on
\* after a probe that failed, errored or timed out.
C16_SurveyNeverAborts ==
    \A i \in SurveyProbeFailures : pc \notin {"except", "raised"}

\* a probe that was caught and counted: the survey returned with a node that
\* is in quorum counted out
C16_ProbeCountedOut ==
    /\ pc = "gate"
    /\ survey.in < Cardinality(Range(config.node_ips) \cap cluster.inq)

\* commands of InstanceLabelRefresh that failed
LabelFailures ==
    {i \in 1..Len(trace) :
        /\ trace[i].k = "fail" /\ trace[i].v = "cmd"
        /\ \E b \in At("begin", "labels") : b < i}

\* C17 as stated: a command that fails inside InstanceLabelRefresh does not
\* end the run, and the completion status is still appended.
C17_LabelsBestEffort ==
    \A i \in LabelFailures : pc \notin {"except", "raised"}

\* a run whose label refresh went through, followed by the completion status
C17_LabelsThenCompletion ==
    /\ pc = "done"
    /\ Ended("labels")
    /\ Completion # {}

\* updates of the status log that succeeded
Accepted == {i \in 1..Len(trace) : trace[i].k = "status"}

\* C18 as stated: the status log is append-only.  Every update that succeeded
\* added one field of its own, and every field added before is still there
\* with the message it was given, updates of the same second included.
C18_AppendOnly ==
    /\ \A i \in Accepted :
          trace[i].v \in DOMAIN fields /\ fields[trace[i].v] = trace[i].n
    /\ Cardinality(DOMAIN fields \ {LastRunStatus}) = Cardinality(Accepted)

\* three updates in three different seconds, all kept
C18_DistinctSecondsKept ==
    /\ Cardinality(Accepted) = MaxUpdates
    /\ Cardinality(DOMAIN fields \ {LastRunStatus}) = MaxUpdates

\* C19 as stated: every list of strings comes back from the ClusterRecord as
\* it was written.
C19_RoundTripAll == pc = "listed" => result = input

\* a string that serialisation and deserialisation leave alone: no separator
\* in it, no white space at either end
CleanString(x) ==
    /\ \A i \in 1..Len(x) : x[i] # ","
    /\ Len(x) > 0 => (x[1] # " " /\ x[Len(x)] # " ")

\* a list that survives: clean strings, and not the one-element lists whose
\* encoding is the empty string or the string "null"
CleanList(l) ==
    /\ \A i \in 1..Len(l) : CleanString(l[i])
    /\ l # << <<>> >>
    /\ l # <<NULL>>

\* C19: a list comes back from the ClusterRecord as it was written exactly
\* when its strings hold no separator and no white space at either end and it
\* is neither the list of the empty string alone nor the list of "null" alone;
\* the empty list is written as the empty string.
C19_RoundTrip ==
    /\ pc = "listed" => (result = input <=> CleanList(input))
    /\ (pc \in {"stored", "listed"} /\ input = <<>>) => get(store, "node-ips", "cur") = <<>>
    /\ (pc \in {"stored", "listed"} /\ get(store, "node-ips", "cur") = <<>>) =>
          input \in {<<>>, << <<>> >>}

\* a list of two different clean strings that came back as written
C19_Witness ==
    /\ pc = "listed"
    /\ Len(input) = 2
    /\ input[1] # input[2]
    /\ CleanList(input)
    /\ result = input

\* a version string made of non-empty decimal fields with dots between them
WellFormed(v) ==
    /\ Len(v) > 0
    /\ \A i \in 1..Len(v) : v[i] \in Digits \cup {"."}
    /\ v[1] # "." /\ v[Len(v)] # "."
    /\ \A i \in 1..(Len(v) - 1) : ~(v[i] = "." /\ v[i + 1] = ".")

\* the number in field i of a well-formed version, zero past its last field
NumAt(v, i) ==
    IF i <= Len(splitOn(v, ".")) THEN int(splitOn(v, ".")[i]) ELSE 0

\* a precedes b, field by field as numbers
VerLess(a, b) ==
    \E i \in 1..Max(Len(a), Len(b)) :
        /\ NumAt(a, i) < NumAt(b, i)
        /\ \A j \in 1..(i - 1) : NumAt(a, j) = NumAt(b, j)

\* C20: vercomp compares two versions field by field as numbers, the shorter
\* one padded with zero fields: it returns 1 when the first precedes the
\* second, 2 when it follows and 0 otherwise, so 7.10 follows 7.6.0 and 7.5.9
\* precedes it.  The gate lets the run go on to the plan exactly when the
\* surveyed version does not precede 7.6.0; otherwise it appends the
\* minimum-version message and the run ends with that error.
C20_NumericCompare ==
    (pc # "vercomp" /\ WellFormed(input[1]) /\ WellFormed(input[2])) =>
        /\ result = (IF VerLess(input[1], input[2]) THEN 1
                     ELSE IF VerLess(input[2], input[1]) THEN 2 ELSE 0)
        /\ input = <<V710, V760>> => result = 2
        /\ input = <<V759, V760>> => result = 1
        /\ pc = "plan" => ~VerLess(survey.ver, MinVersion) /\ trace = <<>>
        /\ pc \in {"except", "raised"} =>
              /\ VerLess(survey.ver, MinVersion)
              /\ trace[1] \in {Status(MinVersionMsg), Failed(Status(MinVersionMsg))}
        /\ pc # "gate" => (pc = "plan" <=> ~VerLess(survey.ver, MinVersion))

\* 7.10 against 7.6.0: the later version, and the gate let it pass
C20_Witness ==
    /\ pc = "plan"
    /\ input = <<V710, V760>>
    /\ result = 2

\* 7.5.9 against 7.6.0: the earlier version, rejected with the message
C20_Rejected ==
    /\ pc = "raised"
    /\ input = <<V759, V760>>
    /\ result = 1
    /\ trace = <<Status(MinVersionMsg), Ev("status", "ERROR", MinVersionMsg)>>

\* the run is the one that follows a run that completed
AfterSuccess == run = "after_success"

\* the cluster is at rest with the recorded members, all in quorum
ClusterAsRecorded ==
    /\ ~cluster.busy
    /\ cluster.all # {}
    /\ cluster.inq = cluster.all
    /\ cluster.all = Range(get_list(store, "node-ips", "cur"))

\* and no probe of the survey was lost: it counted every target node that is
\* in quorum
SurveyExact ==
    /\ ClusterAsRecorded
    /\ survey.in = Cardinality(Range(config.node_ips) \cap cluster.inq)

\* the commands a re-run is not to issue
ReconcilingCmds == {"create_object_backed_cluster",
                    "modify_object_backed_cluster_membership",
                    "add_object_storage_uris", "capacity_clamp_set"}

\* C11 as stated: the run that follows a completed run with the same target
\* plans nothing, whatever the target (creation, node addition, node removal,
\* bucket addition, capacity, replacement), and does not end for want of new
\* nodes.
C11_RerunIdempotent ==
    /\ (AfterSuccess /\ Planned /\ SurveyExact) => flags = NoFlags
    /\ (AfterSuccess /\ ClusterAsRecorded) =>
          err # NoNewNodesMsg

\* the same for targets that neither remove nodes nor replace a cluster
C11_RerunIdempotentElsewhere ==
    (AfterSuccess /\ Planned /\ SurveyExact
       /\ ~config.replace_cluster /\ config.target_node_count = Len(config.node_ips))
    => flags = NoFlags

\* a second run over a cluster the first run formed, with nothing to do
C11_StableRerun ==
    /\ AfterSuccess
    /\ pc = "done"
    /\ \A j \in 1..Len(trace) : ~(trace[j].k = "cmd" /\ trace[j].n \in ReconcilingCmds)
    /\ get(store, "new-cluster", "cur") # NULL

\* a second run that puts back the node the first run removed
C11_NodeReadded ==
    /\ AfterSuccess
    /\ Planned /\ SurveyExact
    /\ flags.add_nodes
    /\ config.target_node_count < Len(config.node_ips)

\* a second run of a replacement, ended for want of new nodes
C11_ReplaceRerunFatal ==
    /\ AfterSuccess
    /\ ClusterAsRecorded
    /\ config.replace_cluster
    /\ pc = "raised"
    /\ trace[Len(trace)] = Ev("status", "ERROR", NoNewNodesMsg)

\* the run is the one that follows a run that was stopped on its way
AfterStop == run = "after_stop"

\* the cluster is at rest with every member in quorum, and the survey counted
\* every target node that is in quorum
HealthyAndSurveyed ==
    /\ ~cluster.busy
    /\ cluster.all # {}
    /\ cluster.inq = cluster.all
    /\ survey.in = Cardinality(Range(config.node_ips) \cap cluster.inq)

\* C12 as stated: the run that follows a run stopped between two steps, with
\* the same target, attaches no bucket the cluster already has, does not end
\* because such a bucket holds data, and when it completes the ClusterRecord
\* names the nodes of the cluster (stated for targets that replace no
\* cluster).
C12_RestartTolerant ==
    /\ (AfterStop /\ ~config.replace_cluster /\ Planned /\ HealthyAndSurveyed
          /\ flags.add_buckets) =>
          Range(new_bucket_uris(config, store)) \cap cluster.uris = {}
    /\ (AfterStop /\ ~config.replace_cluster /\ Began("add_buckets") /\ pc = "raised") =>
          trace[Len(trace)] # Ev("status", "ERROR", "Bucket NOT EMPTY")
    /\ (AfterStop /\ ~config.replace_cluster /\ pc = "done") =>
          get(store, "node-ips", "cur") # NULL

\* stopped after the formation and before the record: the second run is about
\* to attach the buckets the cluster was formed with
C12_ReattachPlanned ==
    /\ AfterStop /\ Planned /\ HealthyAndSurveyed
    /\ ~config.replace_cluster
    /\ get(store, "node-ips", "cur") = NULL
    /\ flags.add_buckets
    /\ Range(new_bucket_uris(config, store)) = cluster.uris

\* the second run ended because a bucket of the cluster holds data
C12_RestartFatal ==
    /\ AfterStop /\ Began("add_buckets") /\ pc = "raised"
    /\ ~config.replace_cluster
    /\ get(store, "node-ips", "cur") = NULL
    /\ trace[Len(trace)] = Ev("status", "ERROR", "Bucket NOT EMPTY")

\* the second run completed and the record still names no node
C12_RecordIncomplete ==
    /\ AfterStop /\ pc = "done"
    /\ ~config.replace_cluster
    /\ get(store, "node-ips", "cur") = NULL
    /\ At("cmd", "add_object_storage_uris") # {}

\* stopped before the formation: the second run forms the cluster and
\* records it
C12_RestartRecovered ==
    /\ AfterStop /\ pc = "done"
    /\ Began("create")
    /\ get_list(store, "node-ips", "cur") = config.node_ips

\* the ClusterRecord holds the target's nodes, buckets and limit
RecordIsTarget ==
    /\ get(store, "node-ips", "cur") = serialize_list_for_firestore(config.node_ips)
    /\ get(store, "fault-domain-ids", "cur") =
           serialize_list_for_firestore(config.fault_domain_ids)
    /\ get(store, "instance-ids", "cur") =
           serialize_list_for_firestore(config.instance_ids)
    /\ get(store, "bucket-names", "cur") =
           serialize_list_for_firestore(config.bucket_names)
    /\ get(store, "bucket-uris", "cur") =
           serialize_list_for_firestore(config.bucket_uris)
    /\ get(store, "soft-capacity-limit", "cur") = str(config.capacity_limit)

\* C21: a target that is not a replacement and whose survey found every node
\* out of quorum is planned as new_cluster alone; when CreateCluster has
\* returned, the recorded node-ips, fault-domain-ids, instance-ids,
\* bucket-names, bucket-uris and soft-capacity-limit are the target's; with
\* an empty floating IP pool it issues no network put_config command and
\* writes no float-ips field.
C21_FreshCreate ==
    /\ (Planned /\ SurveyAllOut /\ ~config.replace_cluster) =>
           flags = [NoFlags EXCEPT !.new_cluster = TRUE]
    /\ Ended("create") => RecordIsTarget
    /\ (Began("create") /\ config.floating_ips = <<>>) =>
           /\ At("cmd", "network_v3_put_config") = {}
           /\ At("put", "float-ips") = {}

\* a creation with an empty pool that has returned
C21_Witness ==
    /\ Ended("create")
    /\ config.floating_ips = <<>>
    /\ Len(config.node_ips) > 1
    /\ pc = "done"

\* a creation with a floating IP that has applied and recorded it
C21_PoolApplied ==
    /\ Ended("create")
    /\ At("cmd", "network_v3_put_config") # {}
    /\ get(store, "float-ips", "cur") = serialize_list_for_firestore(config.floating_ips)

\* the membership-change commands of the run
MembershipCmds == At("cmd", "modify_object_backed_cluster_membership")

\* h is the first target IP that the list old_ips does not hold
IsFirstAdded(h, old_ips) ==
    \E i \in 1..Len(config.node_ips) :
        /\ config.node_ips[i] = h
        /\ h \notin Range(old_ips)
        /\ \A g \in 1..(i - 1) : config.node_ips[g] \in Range(old_ips)

\* AddNodes has begun and no later operation has
InAddNodes == Began("add_nodes") /\ ~Began("remove_nodes") /\ ~Began("floating_ips")

\* C22: a target that adds nodes to a persisted list whose nodes are all in
\* quorum, and changes nothing else, is planned as add_nodes alone.  AddNodes
\* issues one membership-change command that lists every node/fault-domain
\* pair of the target, then waits for active quorum on the first added
\* node's IP, and writes the target node-ips, fault-domain-ids and
\* instance-ids only when that node is in quorum.
C22_AddNodes ==
    /\ (PlannedExisting /\ AddCase /\ ~RemoveCase /\ ~FreshBuckets /\ ~LimitRaised) =>
           flags = [NoFlags EXCEPT !.add_nodes = TRUE]
    /\ InAddNodes =>
           /\ Cardinality(MembershipCmds) <= 1
           /\ \A c \in MembershipCmds :
                 trace[c].v = [i \in 1..Len(config.node_ips) |->
                                  [ip |-> config.node_ips[i],
                                   fid |-> config.fault_domain_ids[i]]]
           /\ \A w \in At("wait", "wait_for_active_quorum") :
                 /\ w - 1 \in MembershipCmds
                 /\ pc = "add_wait" => IsFirstAdded(trace[w].v, PersistedIps)
           /\ \A p \in PutsSince("add_nodes") :
                 /\ \E w \in At("wait", "wait_for_active_quorum") :
                       w < p /\ trace[w].v \in cluster.inq
                 /\ trace[p].n \in {"node-ips", "fault-domain-ids", "instance-ids"}
    /\ (InAddNodes /\ Ended("add_nodes")) =>
           /\ get(store, "node-ips", "cur") = serialize_list_for_firestore(config.node_ips)
           /\ get(store, "fault-domain-ids", "cur") =
                  serialize_list_for_firestore(config.fault_domain_ids)
           /\ get(store, "instance-ids", "cur") =
                  serialize_list_for_firestore(config.instance_ids)

\* two nodes added to one: the wait is on the first of them, the record not
\* yet written
C22_Witness ==
    /\ pc = "add_wait"
    /\ flags = [NoFlags EXCEPT !.add_nodes = TRUE]
    /\ Len(config.node_ips) = Len(PersistedIps) + 2
    /\ \E w \in At("wait", "wait_for_active_quorum") : trace[w].v \notin cluster.inq

\* the addition has returned with the target recorded
C22_Recorded ==
    /\ Ended("add_nodes")
    /\ get(store, "node-ips", "cur") = serialize_list_for_firestore(config.node_ips)
    /\ flags = [NoFlags EXCEPT !.add_nodes = TRUE]
    /\ pc = "done"

\* ------------------------------------------------- user-data.py: first boot
\* invocations of user-data.py on one node
MaxBoots == 2

OsFamilies == {"debian", "rhel"}

\* what a step of run_initialization can come to: "ok", "warned" when a
\* failure inside the step is caught and logged there, "raised" when the
\* step raises
StepOutcomes(os, step) ==
    CASE step = "check_connectivity" -> {"ok", "warned", "raised"}
      [] step = "uninstall_undesired_packages" ->
            IF os = "debian" THEN {"ok", "raised"} ELSE {"ok"}
      [] step = "install_required_packages" ->
            IF os = "debian" THEN {"ok", "raised"} ELSE {"ok", "warned", "raised"}
      [] step = "configure_system_services" ->
            IF os = "debian" THEN {"ok", "warned", "raised"} ELSE {"ok", "warned"}
      [] OTHER -> {"ok", "raised"}

\* a first-boot check that does not look at the flag file
check_first_boot_always(flag_exists) == TRUE

\* BaseNodeInitializer.check_first_boot
check_first_boot(flag_exists) == ~flag_exists

InitBoot ==
    /\ InitEnv
    /\ run = "first" /\ fields = NoDocument /\ now = 0
    /\ InitNode
    /\ InitVersions
    /\ result = <<>>
    /\ pc = "run_initialization"
    /\ \E os \in OsFamilies, install \in {"true", "false"}, url \in {<<"gs://pkg">>, <<>>} :
          /\ install = "false" => url = <<>>
          /\ input = [os |-> os, install_qumulo_package |-> install,
                      qumulo_package_url |-> url]

\* the step at pc runs and comes to one of outcomes
InitStep(step, outcomes, next) ==
    /\ pc = step
    /\ \E o \in outcomes :
          /\ trace' = Append(trace, Ev("step", step, o))
          /\ pc' = IF o = "raised" THEN "exit1" ELSE next
    /\ UNCHANGED <<config, store, cluster, nonempty, survey, flags, ids, obs, err, aux>>

\* run_initialization up to the first-boot check
run_initialization ==
    /\ pc = "run_initialization"
    /\ trace' = Append(trace, Begin("run_initialization"))
    /\ pc' = IF check_first_boot(first_boot_flag) THEN "check_connectivity" ELSE "exit0"
    /\ UNCHANGED <<config, store, cluster, nonempty, survey, flags, ids, obs, err, aux>>

check_connectivity ==
    InitStep("check_connectivity", StepOutcomes(input.os, "check_connectivity"),
             "uninstall_undesired_packages")

uninstall_undesired_packages ==
    InitStep("uninstall_undesired_packages",
             StepOutcomes(input.os, "uninstall_undesired_packages"),
             "install_required_packages")

install_required_packages ==
    InitStep("install_required_packages",
             StepOutcomes(input.os, "install_required_packages"),
             "configure_system_services")

configure_system_services ==
    InitStep("configure_system_services",
             StepOutcomes(input.os, "configure_system_services"),
             "verify_gcloud_cli")

verify_gcloud_cli ==
    InitStep("verify_gcloud_cli", StepOutcomes(input.os, "verify_gcloud_cli"),
             "enable_frontend_interface_service")

enable_frontend_interface_service ==
    InitStep("enable_frontend_interface_service",
             StepOutcomes(input.os, "enable_frontend_interface_service"),
             IF input.install_qumulo_package = "true" THEN "install_qumulo_core"
             ELSE "mark_first_boot_complete")

\* the package URL is required; the download, the wait for the disks and the
\* installation of the package file raise what fails in them
install_qumulo_core ==
    InitStep("install_qumulo_core",
             IF input.qumulo_package_url = <<>> THEN {"raised"}
             ELSE StepOutcomes(input.os, "install_qumulo_core"),
             "mark_first_boot_complete")

\* Path(FIRST_BOOT_FLAG).touch(), which can fail
mark_first_boot_complete ==
    /\ pc = "mark_first_boot_complete"
    /\ \E o \in StepOutcomes(input.os, "mark_first_boot_complete") :
          /\ trace' = Append(trace, Ev("step", "mark_first_boot_complete", o))
          /\ first_boot_flag' = (o = "ok")
          /\ pc' = IF o = "ok" THEN "exit0" ELSE "exit1"
    /\ UNCHANGED <<config, store, cluster, nonempty, survey, flags, ids, obs, err,
                   run, fields, now, input, result, installed, attempt, other_version>>

\* the node boots again and its startup script invokes user-data.py
Reboot ==
    /\ pc \in {"exit0", "exit1"}
    /\ Cardinality(At("begin", "run_initialization")) < MaxBoots
    /\ pc' = "run_initialization"
    /\ UNCHANGED <<config, store, cluster, nonempty, trace, survey, flags, ids, obs, err,
                   aux>>

NextBoot ==
    \/ run_initialization
    \/ check_connectivity
    \/ uninstall_undesired_packages
    \/ install_required_packages
    \/ configure_system_services
    \/ verify_gcloud_cli
    \/ enable_frontend_interface_service
    \/ install_qumulo_core
    \/ mark_first_boot_complete
    \/ Reboot

SpecBoot == InitBoot /\ [][NextBoot]_vars

\* the steps run_initialization calls before it creates the flag file
StepsBeforeFlag ==
    <<"check_connectivity", "uninstall_undesired_packages", "install_required_packages",
      "configure_system_services", "verify_gcloud_cli",
      "enable_frontend_interface_service">> \o
    (IF input.install_qumulo_package = "true" THEN <<"install_qumulo_core">> ELSE <<>>)

StepsRun == {i \in 1..Len(trace) : trace[i].k = "step"}
FlagCreated ==
    {i \in StepsRun : trace[i].n = "mark_first_boot_complete" /\ trace[i].v = "ok"}

\* C23: node initialization runs at most once to completion.  An invocation
\* that finds the first-boot flag file performs no step.  The flag is created
\* once, and only after every step (connectivity check, package removal and
\* installation, service configuration, CLI verification, interface tagging
\* and, when requested, the core installation) of the same invocation has
\* returned without raising; an invocation in which a step raised leaves the
\* flag absent, and the next invocation starts again at the first step.
C23_FirstBootOnce ==
    /\ first_boot_flag <=> FlagCreated # {}
    /\ Cardinality(FlagCreated) <= 1
    /\ \A m \in FlagCreated :
          /\ \A i \in StepsRun : i <= m
          /\ m > Len(StepsBeforeFlag)
          /\ \A j \in 1..Len(StepsBeforeFlag) :
                LET e == trace[m - Len(StepsBeforeFlag) + j - 1]
                IN  e.k = "step" /\ e.n = StepsBeforeFlag[j] /\ e.v # "raised"
    /\ pc = "exit1" =>
          /\ ~first_boot_flag
          /\ trace[Len(trace)].k = "step" /\ trace[Len(trace)].v = "raised"
    /\ (pc # "run_initialization" /\ Len(trace) > 0
            /\ trace[Len(trace)] = Begin("run_initialization")) =>
          IF first_boot_flag THEN pc = "exit0" ELSE pc = "check_connectivity"

\* an invocation that completed and the next one, which found the flag and
\* performed no step
C23_Witness ==
    /\ Cardinality(At("begin", "run_initialization")) = 2
    /\ pc = "exit0"
    /\ first_boot_flag
    /\ trace[Len(trace)] = Begin("run_initialization")
    /\ input.install_qumulo_package = "true"

\* an invocation that failed part-way and the next one, which completed
C23_Retried ==
    /\ Cardinality(At("begin", "run_initialization")) = 2
    /\ first_boot_flag
    /\ \E i \in StepsRun : trace[i].v = "raised"

\* a completed initialization one of whose steps logged a failure it caught
C23_CompletedWithWarning ==
    /\ first_boot_flag
    /\ \E i \in StepsRun : trace[i].v = "warned"

\* --------------------------------------------- user-data.py: install_package
MAX_RETRIES == 5

\* packages of the list that install_required_packages goes through
MaxPackages == 2

\* install_required_packages: packages (the kernel tools left out)
RequiredPackages(os) ==
    IF os = "debian"
    THEN <<"jq", "unzip", "iperf3", "linux-tools-common", "systemd-container">>
    ELSE <<"jq", "iperf3", "systemd-container", "systemd-resolved", "unzip">>

\* install_package: check_cmd and the install command
CheckCmd(os) == IF os = "debian" THEN "dpkg -s" ELSE "rpm -q"
InstallCmd(os) == IF os = "debian" THEN "apt-get install -y" ELSE "dnf install -y"

\* what subprocess.run can come to under run_command: the exit status, or
\* the exception it raised
CheckResults == {"0", "1", "TimeoutExpired"}
AttemptResults == {"0", "CalledProcessError", "TimeoutExpired", "OSError"}

\* an installed-check that takes every package as missing
already_installed_never(returncode) == FALSE

\* install_package: if result.returncode == 0
already_installed(returncode) == returncode = "0"

\* install_package: except (subprocess.CalledProcessError, subprocess.TimeoutExpired)
Retried(r) == r \in {"CalledProcessError", "TimeoutExpired"}

InitInstall ==
    /\ InitEnv
    /\ run = "first" /\ fields = NoDocument /\ now = 0
    /\ InitVersions
    /\ first_boot_flag = FALSE
    /\ attempt = 0
    /\ pc = "install_package"
    /\ \E os \in OsFamilies :
          /\ input = [os |-> os, packages |-> Take(RequiredPackages(os), MaxPackages)]
          /\ installed \in SUBSET Range(input.packages)
    /\ result = <<>>

\* the place in the list of the package install_package was last called with
package_index ==
    Cardinality({i \in 1..Len(trace) : trace[i].k = "check"})
        + (IF pc = "install_package" THEN 1 ELSE 0)
package_name == input.packages[package_index]

\* install_package up to the retry loop: the check command runs with
\* check=False, so run_command returns what it caught; an exception object
\* has no returncode
install_package ==
    /\ pc = "install_package"
    /\ \E r \in CheckResults :
          /\ r = "0" => package_name \in installed
          /\ r = "1" => package_name \notin installed
          /\ trace' = Append(trace, Ev("check", CheckCmd(input.os),
                                       [package |-> package_name, out |-> r]))
          /\ IF r \notin {"0", "1"}
             THEN pc' = "raised" /\ err' = "AttributeError" /\ attempt' = attempt
             ELSE IF already_installed(r)
             THEN pc' = "returned" /\ err' = err /\ attempt' = attempt
             ELSE pc' = "attempt" /\ err' = err /\ attempt' = 1
    /\ UNCHANGED <<config, store, cluster, nonempty, survey, flags, ids, obs,
                   run, fields, now, input, result, first_boot_flag, installed, other_version>>

\* one pass of the loop for attempt in range(1, MAX_RETRIES + 1)
InstallAttempt ==
    /\ pc = "attempt"
    /\ \E r \in AttemptResults :
          /\ trace' = Append(trace, Ev("attempt", InstallCmd(input.os),
                                       [package |-> package_name, out |-> r]))
          /\ installed' = IF r = "0" THEN installed \cup {package_name} ELSE installed
          /\ IF r = "0"
             THEN pc' = "returned" /\ err' = err /\ attempt' = attempt
             ELSE IF ~Retried(r)
             THEN pc' = "raised" /\ err' = r /\ attempt' = attempt
             ELSE IF attempt = MAX_RETRIES
             THEN pc' = "raised" /\ err' = "Package installation failed"
                  /\ attempt' = attempt
             ELSE pc' = "attempt" /\ err' = err /\ attempt' = attempt + 1
    /\ UNCHANGED <<config, store, cluster, nonempty, survey, flags, ids, obs,
                   run, fields, now, input, result, first_boot_flag, other_version>>

\* install_required_packages: for package in packages
NextPackage ==
    /\ pc = "returned"
    /\ package_index < Len(input.packages)
    /\ attempt' = 0
    /\ pc' = "install_package"
    /\ UNCHANGED <<config, store, cluster, nonempty, trace, survey, flags, ids, obs, err,
                   run, fields, now, input, result, first_boot_flag, installed, other_version>>

NextInstall ==
    \/ install_package
    \/ InstallAttempt
    \/ NextPackage

SpecInstall == InitInstall /\ [][NextInstall]_vars

\* the install attempts made for package p, and the checks of p
AttemptsOf(p) ==
    {i \in 1..Len(trace) : trace[i].k = "attempt" /\ trace[i].v.package = p}
ChecksOf(p) ==
    {i \in 1..Len(trace) : trace[i].k = "check" /\ trace[i].v.package = p}

\* C24: install_package issues no install command for a package whose check
\* reported it installed; otherwise it makes at most MAX_RETRIES (5) install
\* attempts, returns at the first attempt that succeeds and makes no attempt
\* after it, and raises "Package installation failed" when the fifth attempt
\* in a row has failed or timed out, and only then.
C24_InstallRetry ==
    /\ \A i \in 1..package_index :
          LET p == input.packages[i] IN
          /\ (\E c \in ChecksOf(p) : trace[c].v.out = "0") => AttemptsOf(p) = {}
          /\ Cardinality(AttemptsOf(p)) <= MAX_RETRIES
          /\ \A a \in AttemptsOf(p) :
                trace[a].v.out = "0" =>
                    /\ \A b \in AttemptsOf(p) : b <= a
                    /\ i = package_index => pc = "returned"
          /\ (Cardinality(AttemptsOf(p)) = MAX_RETRIES
                /\ \A a \in AttemptsOf(p) : Retried(trace[a].v.out)) =>
                    (pc = "raised" /\ err = "Package installation failed")
    /\ (pc = "raised" /\ err = "Package installation failed") =>
          /\ Cardinality(AttemptsOf(package_name)) = MAX_RETRIES
          /\ \A a \in AttemptsOf(package_name) : Retried(trace[a].v.out)
    /\ \A i \in (package_index + 1)..Len(input.packages) : AttemptsOf(input.packages[i]) = {}

\* five attempts failed, by exit status and by timeout, and the error is raised
C24_Witness ==
    /\ pc = "raised" /\ err = "Package installation failed"
    /\ \E a, b \in AttemptsOf(package_name) :
          trace[a].v.out = "CalledProcessError" /\ trace[b].v.out = "TimeoutExpired"

\* a package found installed, and the next one installed at its third attempt
C24_ThirdAttempt ==
    /\ pc = "returned" /\ package_index = 2
    /\ AttemptsOf(input.packages[1]) = {}
    /\ Cardinality(AttemptsOf(package_name)) = 3

\* the check command did not return an exit status: install_package ends
\* with an AttributeError and has made no attempt
C24_CheckTimedOut ==
    /\ pc = "raised" /\ err = "AttributeError"
    /\ AttemptsOf(package_name) = {}

\* ------------------------------------------------ properties (continued)
\* the run ended on a failed command or on an old node id found present
CmdOrOldNodeError ==
    /\ pc \in {"except", "raised"}
    /\ \/ err = "Old Node not removed from quorum"
       \/ \E i \in 1..Len(trace) : trace[i].k = "fail" /\ trace[i].v = "cmd"

\* the membership fields are what they were when op began
RecordAsBefore(op) == \A b \in At("begin", op) : trace[b].v = MembershipFields(store)

\* writes of membership fields made after op began
MembershipPutsSince(op) == {j \in PutsSince(op) : trace[j].n \in MembershipKeys}

\* C25 as stated: if RemoveNodes or ReplaceCluster ends with an error (a
\* command failure or an old node id still present), the persisted node-ips,
\* fault-domain-ids and instance-ids of the current deployment are what they
\* were before the operation started.
C25_RecordKeptOnError ==
    \A op \in {"remove_nodes", "replace"} :
        (Began(op) /\ ~Ended(op) /\ CmdOrOldNodeError) => RecordAsBefore(op)

\* C25: RemoveNodes and ReplaceCluster write the persisted membership fields
\* only after they observed the requested membership without any old node
\* id.  If RemoveNodes ends with an error (a command failure or an old node
\* id still present) the persisted node-ips, fault-domain-ids and
\* instance-ids are what they were before it started; so are they if
\* ReplaceCluster ends with such an error before it has written them.  A
\* command that fails in ReplaceCluster after the write (login, floating IPs,
\* tunables, log level) leaves the three fields holding the target's lists.
C25_RecordAfterConfirmation ==
    /\ \A op \in {"remove_nodes", "replace"} :
          (Began(op) /\ ~Began("floating_ips") /\ MembershipPutsSince(op) # {}) =>
              /\ obs.all \cap ids = {}
              /\ obs.out = {}
              /\ Cardinality(obs.all) =
                    (IF op = "replace" THEN Len(config.node_ips)
                     ELSE Min(config.target_node_count, Len(config.node_ips)))
              /\ \E v \in At("cmd", "quorum_details") :
                    \A j \in MembershipPutsSince(op) : v < j
    /\ (Began("remove_nodes") /\ ~Ended("remove_nodes") /\ CmdOrOldNodeError) =>
          RecordAsBefore("remove_nodes")
    /\ (Began("replace") /\ ~Ended("replace") /\ CmdOrOldNodeError) =>
          \/ RecordAsBefore("replace")
          \/ /\ Cardinality(MembershipPutsSince("replace")) = 3
             /\ get(store, "node-ips", "cur") = serialize_list_for_firestore(config.node_ips)
             /\ get(store, "fault-domain-ids", "cur") =
                    serialize_list_for_firestore(config.fault_domain_ids)
             /\ get(store, "instance-ids", "cur") =
                    serialize_list_for_firestore(config.instance_ids)
             /\ \E f \in 1..Len(trace) :
                   /\ trace[f].k = "fail" /\ trace[f].v = "cmd"
                   /\ \A j \in MembershipPutsSince("replace") : j < f

\* a removal stopped by an old node id, the record as it was
C25_Witness ==
    /\ Began("remove_nodes")
    /\ err = "Old Node not removed from quorum"
    /\ pc = "raised"
    /\ RecordAsBefore("remove_nodes")
    /\ get(store, "node-ips", "cur") # NULL

\* a replacement stopped by a command that failed after the record was written
C25_ReplaceStoppedLate ==
    /\ Began("replace") /\ ~Ended("replace")
    /\ CmdOrOldNodeError
    /\ ~RecordAsBefore("replace")

\* the persisted node list as it was when RemoveNodes began
PersistedAtRemove ==
    LET b == CHOOSE b \in At("begin", "remove_nodes") : TRUE
    IN  deserialize_list_from_firestore(trace[b].v["node-ips"])

\* the membership-change commands RemoveNodes issued
RemoveCmds ==
    {c \in MembershipCmds : \E b \in At("begin", "remove_nodes") : b < c}

\* C26 as stated: with persisted list P and target_node_count n < Len(P),
\* the membership command of RemoveNodes retains exactly P[0..n-1], the node
\* ids checked for absence are those of P[n..], and the record written
\* afterwards is P[0..n-1] with the matching fault-domain and instance ids.
C26_RemoveTailOfPersisted ==
    (Began("remove_nodes") /\ ~Began("floating_ips")) =>
        LET kept == Take(PersistedAtRemove, config.target_node_count)
            gone == Drop(PersistedAtRemove, config.target_node_count)
        IN  /\ \A c \in RemoveCmds :
                  [i \in 1..Len(trace[c].v) |-> trace[c].v[i].ip] = kept
            /\ pc \in {"remove_wait", "remove_poll", "remove_verify"} =>
                  ids = {Qid(ip) : ip \in Range(gone)}
            /\ Ended("remove_nodes") =>
                  /\ get(store, "node-ips", "cur") = serialize_list_for_firestore(kept)
                  /\ get(store, "fault-domain-ids", "cur") =
                         serialize_list_for_firestore([i \in 1..Len(kept) |-> FdOf(kept[i])])
                  /\ get(store, "instance-ids", "cur") =
                         serialize_list_for_firestore([i \in 1..Len(kept) |-> InstOf(kept[i])])

\* the same when the target lists every persisted node, in the persisted order
C26_RemoveTailOfTarget ==
    (Began("remove_nodes") /\ ~Began("floating_ips")
        /\ PersistedAtRemove = config.node_ips) => C26_RemoveTailOfPersisted

\* a removal that returned although the node it took out was not among the
\* ids it checked
C26_UncheckedRemoval ==
    /\ Ended("remove_nodes") /\ ~Began("floating_ips")
    /\ ids = {}
    /\ Len(PersistedAtRemove) > config.target_node_count

\* positions of the run up to the planner
BeforePlanned == {"start", "creds", "nodes", "survey", "gate", "plan"}

VersionMismatchMsg == "Can't add nodes running another version"

\* the planner ended the run over the version of a node to be added
VersionGuardFatal ==
    /\ pc \in {"except", "raised"}
    /\ err = VersionMismatchMsg
    /\ \/ At("status", VersionMismatchMsg) # {}
       \/ \E i \in 1..Len(trace) :
             trace[i] = Failed(Status(VersionMismatchMsg))

\* C27 as stated: when any IP that is to be added reports a version other
\* than the recorded installed version, the planner ends the run with a
\* fatal error and a status entry, add_nodes is not set and no
\* membership-change command is issued.  (A survey that found every target
\* node out of quorum plans a new cluster and reads no such version.)
C27_AnyAddedVersionGuarded ==
    other_version # {} =>
        /\ ~flags.add_nodes
        /\ MembershipCmds = {}
        /\ (pc \notin BeforePlanned /\ ~flags.new_cluster) =>
              \/ VersionGuardFatal
              \/ pc \in {"except", "raised"} /\ err # VersionMismatchMsg

\* the same for the first IP that is to be added, the one whose version the
\* planner reads
C27_FirstAddedVersionGuarded ==
    (\E ip \in other_version : IsFirstAdded(ip, PersistedIps)) =>
        C27_AnyAddedVersionGuarded

\* nodes added although one of them reported a version of its own
C27_MixedVersionsAdded ==
    /\ other_version # {}
    /\ Ended("add_nodes")
    /\ other_version \subseteq cluster.inq

\* a plan stopped by the version of the first node to be added
C27_FirstAddedStopped ==
    /\ other_version # {}
    /\ VersionGuardFatal
    /\ pc = "raised"

\* C28: a replacement needs the prior deployment's record.  When its node-ips
\* or its instance-ids is absent, ReplaceCluster ends fatally before the
\* cross-deployment firewall rule is updated and before any
\* membership-change command is issued.
C28_ReplaceNeedsPriorRecord ==
    (Began("replace")
        /\ (get(store, "node-ips", "prev") = NULL
               \/ get(store, "instance-ids", "prev") = NULL)) =>
        /\ pc \in {"except", "raised"}
        /\ pc = "except" => err = "Cannot find existing cluster information for replacement"
        /\ At("cmd", "firewall-rules update") = {}
        /\ MembershipCmds = {}
        /\ \A i \in 1..Len(trace) :
              (\E b \in At("begin", "replace") : b < i) =>
                  trace[i].k \notin {"cmd", "put"}

\* a replacement stopped because the prior record has no instance-ids
C28_Witness ==
    /\ Began("replace")
    /\ get(store, "node-ips", "prev") # NULL
    /\ get(store, "instance-ids", "prev") = NULL
    /\ pc = "raised"

\* a replacement stopped because there is no prior record at all
C28_NoPriorRecord ==
    /\ Began("replace")
    /\ get(store, "node-ips", "prev") = NULL
    /\ pc = "raised"

\* ---- C29
\* the name/URI pairs of the target that the persisted lists do not hold
PairPersisted(i, names, uris) ==
    \E h \in 1..Len(names) :
        /\ h <= Len(uris)
        /\ names[h] = config.bucket_names[i]
        /\ uris[h] = config.bucket_uris[i]
NewPairs(names, uris) ==
    {i \in 1..Len(config.bucket_names) : ~PairPersisted(i, names, uris)}
PersistedPairsNow ==
    NewPairs(get_list(store, "bucket-names", OldDeployment(config)),
             get_list(store, "bucket-uris", OldDeployment(config)))

\* the target's names, and URIs, at the given positions, in target order
RECURSIVE PickAt(_, _, _)
PickAt(list, keep, i) ==
    IF i > Len(list) THEN <<>>
    ELSE (IF i \in keep THEN <<list[i]>> ELSE <<>>) \o PickAt(list, keep, i + 1)

BucketCmdsSince(b, n) ==
    {j \in At("cmd", n) : b < j}

\* C29: the plan never sets add_buckets for a brand-new cluster that is not a
\* replacement; in every other case it sets it exactly when the target holds a
\* bucket name/URI pair that the persisted record does not.  AddBuckets then
\* lists for emptiness only the new buckets, all of them before attaching,
\* attaches exactly the new URIs, and once it has ended a capacity clamp with
\* the target limit was issued after the attach.
C29_BucketDelta ==
    /\ (Planned /\ flags.new_cluster /\ ~config.replace_cluster) => ~flags.add_buckets
    /\ (Planned /\ ~(flags.new_cluster /\ ~config.replace_cluster))
          => (flags.add_buckets <=> PersistedPairsNow # {})
    /\ \A b \in At("begin", "add_buckets") :
          LET delta == NewPairs(trace[b].v["bucket-names"], trace[b].v["bucket-uris"])
              delta_names == PickAt(config.bucket_names, delta, 1)
              delta_uris == PickAt(config.bucket_uris, delta, 1)
              listed == BucketCmdsSince(b, "storage objects list")
              attached == BucketCmdsSince(b, "add_object_storage_uris")
          IN  /\ flags.add_buckets
              /\ \A j \in listed : trace[j].v \in Range(delta_names)
              /\ \A a \in attached :
                    /\ trace[a].v = delta_uris
                    /\ \A i \in 1..Len(delta_names) :
                          \E j \in listed : j < a /\ trace[j].v = delta_names[i]
              /\ Cardinality(attached) <= 1
              /\ Ended("add_buckets") =>
                    \E a \in attached : \E c \in BucketCmdsSince(a, "capacity_clamp_set") :
                        trace[c].v = config.capacity_limit

\* an existing cluster whose record holds one of the two target buckets got
\* the other one attached, and the operation ended
C29_Witness ==
    /\ Ended("add_buckets")
    /\ ~config.replace_cluster
    /\ Len(config.bucket_names) = 2
    /\ \E b \in At("begin", "add_buckets") :
          /\ Len(trace[b].v["bucket-names"]) = 1
          /\ \E a \in BucketCmdsSince(b, "add_object_storage_uris") :
                Len(trace[a].v) = 1

\* a replacement over a fresh survey had its new bucket attached
C29_ReplaceAttached ==
    /\ Ended("add_buckets")
    /\ config.replace_cluster
    /\ flags.new_cluster

\* a plan for an existing cluster whose buckets are all persisted
C29_NothingNew ==
    /\ Planned
    /\ ~flags.new_cluster
    /\ PersistedPairsNow = {}
    /\ ~flags.add_buckets

\* ---- C30
\* the commands CreateCluster has issued since it began
CreateCmds(b) ==
    {j \in 1..Len(trace) :
        /\ b < j
        /\ trace[j].k = "cmd"
        /\ \A e \in At("end", "create") : j < e}

\* C30: in CreateCluster the credential rotation is the last command: no
\* command of CreateCluster follows change_password, every login of
\* CreateCluster is with the default credential, the cluster answers to the
\* default credential as long as the rotation was not issued, and a
\* CreateCluster that ended has rotated it.
C30_RotationLast ==
    \A b \in At("begin", "create") :
        LET cmds == CreateCmds(b)
            rot == {j \in cmds : trace[j].n = "change_password"}
        IN  /\ \A r \in rot : \A j \in cmds : j <= r
            /\ Cardinality(rot) <= 1
            /\ \A j \in cmds : trace[j].n # "login"
            /\ (rot = {} /\ At("cmd", "create_object_backed_cluster") # {})
                  => cluster.pw = "default"
            /\ Ended("create") => (rot # {} /\ cluster.pw = "admin")

\* a CreateCluster that formed the cluster, logged in, set a tunable, applied
\* floating IPs and then rotated the credential
C30_Witness ==
    /\ Ended("create")
    /\ \E b \in At("begin", "create") :
          LET cmds == CreateCmds(b)
          IN  /\ \E j \in cmds : trace[j].n = "login default"
              /\ \E j \in cmds : trace[j].n = "PUT credit_accountant_io_refill_iops"
              /\ \E j \in cmds : trace[j].n = "network_v3_put_config"
              /\ \E j \in cmds : trace[j].n = "change_password"

\* a CreateCluster stopped after the formation and before the rotation
C30_StoppedBeforeRotation ==
    /\ pc = "raised"
    /\ Began("create")
    /\ At("cmd", "login default") # {}
    /\ At("cmd", "change_password") = {}

\* ---- C31
\* the reconciliations of the run: each starts with its read of the live
\* network configuration
Reconciliations == At("cmd", "network_v3_get_config")
FlipCmdsSince(g) == {j \in At("cmd", "network_v3_put_config") : g < j}
FlipPutsSince(g) ==
    {j \in 1..Len(trace) :
        /\ g < j
        /\ trace[j].k = "put"
        /\ trace[j].n \in {"float-ips", "floating-ip-count"}}
\* the run went on after the reconciliation that began at g
Reconciled(g) ==
    \/ Ended("floating_ips")
    \/ \E j \in At("put", "new-cluster") : g < j
PersistedFlips == Range(get_list(store, "float-ips", "cur"))

\* C31 as stated: a reconciliation that read a live floating IP set equal to
\* the target's issues no put_config and writes no floating-IP field; any
\* other issues one put_config with the target's list and then writes the
\* fields; and after every reconciliation that completed, the persisted
\* float-ips is the cluster's live floating IP set.
C31_ReconcileFloatingIps ==
    \A g \in Reconciliations :
        LET same == Range(trace[g].v) = Range(config.floating_ips)
        IN  /\ same => (FlipCmdsSince(g) = {} /\ FlipPutsSince(g) = {})
            /\ (~same /\ Reconciled(g)) =>
                  /\ Cardinality(FlipCmdsSince(g)) = 1
                  /\ \A c \in FlipCmdsSince(g) :
                        /\ trace[c].v = config.floating_ips
                        /\ \E j \in At("put", "float-ips") :
                              c < j /\ trace[j].v = serialize_list_for_firestore(config.floating_ips)
            /\ Reconciled(g) => PersistedFlips = Range(cluster.flips)

\* the same for the reconciliations of a cluster that is not a replacement,
\* whose record held the live floating IPs when the run began
C31_ReconcileInPlace ==
    ~config.replace_cluster =>
        \A g \in Reconciliations :
            LET same == Range(trace[g].v) = Range(config.floating_ips)
            IN  /\ same => (FlipCmdsSince(g) = {} /\ FlipPutsSince(g) = {})
                /\ (~same /\ Reconciled(g)) => Cardinality(FlipCmdsSince(g)) = 1
                /\ Reconciled(g) => PersistedFlips = Range(cluster.flips)

\* a replacement kept the floating IPs of the cluster it took over and left
\* the float-ips field of its own record unwritten
C31_ReplacementKeptFlips ==
    /\ Ended("replace")
    /\ cluster.flips # <<>>
    /\ cluster.flips = config.floating_ips
    /\ get(store, "float-ips", "cur") = NULL

\* ------------------------------------------------------------- tunables
MaxRefill == 4
MaxDisks == 2

\* refill_iops, refill_bps (MB/s) and disk_count of the call under study
InitTun ==
    /\ InitEnv
    /\ run = "first" /\ fields = NoDocument /\ now = 0
    /\ InitNode
    /\ InitVersions
    /\ pc = "tunables"
    /\ input \in (0..MaxRefill) \X (0..MaxRefill) \X (0..MaxDisks)
    /\ result = <<>>

\* apply_cluster_tunables up to its quorum wait, every command succeeding
ApplyTunables ==
    /\ pc = "tunables"
    /\ trace' = trace \o apply_cluster_tunables(<<"n1">>, input[1], input[2], input[3])
    /\ pc' = "tuned"
    /\ UNCHANGED <<config, store, cluster, nonempty, survey, flags, ids, obs, err, aux>>

NextTun == ApplyTunables

SpecTun == InitTun /\ [][NextTun]_vars

IopsCmds == At("cmd", "PUT credit_accountant_io_refill_iops")
BpsCmds == At("cmd", "PUT credit_accountant_th_refill_blocks_per_second")
\* v is floor(refill_bps * 1000000 / 4096)
IsBlocksPerSecond(v, refill_bps) ==
    /\ v * 4096 <= refill_bps * 1000000
    /\ refill_bps * 1000000 < (v + 1) * 4096

\* C32 as stated: the IOPS refill command is issued exactly when the IOPS
\* refill value is non-zero, the bandwidth refill command exactly when the
\* bandwidth refill value is non-zero, with floor(refill_bps * 1000000 / 4096)
\* as its value.
C32_TunablesByValue ==
    pc = "tuned" =>
        /\ (IopsCmds # {}) <=> (input[1] # 0)
        /\ (BpsCmds # {}) <=> (input[2] # 0)
        /\ \A j \in BpsCmds : IsBlocksPerSecond(trace[j].v, input[2])

\* C32: the IOPS refill command is issued, once and with the value, exactly
\* when the IOPS refill value is non-zero; the bandwidth refill command is
\* issued, once, exactly when both the bandwidth refill value and the disk
\* count are non-zero, with floor(refill_bps * 1000000 / 4096) as its value.
C32_TunablesByValueAndDisks ==
    pc = "tuned" =>
        /\ (IopsCmds # {}) <=> (input[1] # 0)
        /\ Cardinality(IopsCmds) <= 1
        /\ \A j \in IopsCmds : trace[j].v = input[1]
        /\ (BpsCmds # {}) <=> (input[2] # 0 /\ input[3] # 0)
        /\ Cardinality(BpsCmds) <= 1
        /\ \A j \in BpsCmds : IsBlocksPerSecond(trace[j].v, input[2])

\* a bandwidth refill of 3 MB/s on a node with disks was sent as 732 blocks
\* per second, without an IOPS refill
C32_Witness ==
    /\ pc = "tuned"
    /\ input = <<0, 3, 1>>
    /\ IopsCmds = {}
    /\ \E j \in BpsCmds : trace[j].v = 732

\* a non-zero bandwidth refill with a disk count of zero sent no command
C32_NoDisksNoRefill ==
    /\ pc = "tuned"
    /\ input[2] # 0
    /\ input[3] = 0
    /\ BpsCmds = {}

\* ---- C33
\* the positions at which the run is inside wait_for_active_quorum, and the
\* node the wait probes
QuorumWaitPcs == {"create_wait", "create_tun_wait", "replace_wait", "replace_tun_wait",
                  "add_wait", "remove_wait", "cap_wait", "bkt_wait"}
WaitedHost == trace[Len(trace)].v
InQuorumWait ==
    /\ pc \in QuorumWaitPcs
    /\ Len(trace) > 0
    /\ trace[Len(trace)] = Wait(WaitedHost)

\* every quorum wait position follows the marker of its wait
WaitMarked == pc \in QuorumWaitPcs => InQuorumWait

\* C33 (as stated, its safety part): the quorum wait is left, by a return or
\* by an exception, only in a state in which the probed node is active.
C33_WaitLeftOnlyWhenActive ==
    [][(InQuorumWait /\ pc' # pc) => WaitedHost \in cluster.inq]_vars

\* the quorum wait returns only in a state in which the probed node is active
C33_WaitReturnsOnlyWhenActive ==
    [][(InQuorumWait /\ pc' # pc /\ err' # "node_state_get timed out")
          => WaitedHost \in cluster.inq]_vars

\* a quorum wait ended with an exception while the probed node was not active
C33_WaitRaisedWhileInactive ==
    /\ pc = "except"
    /\ err = "node_state_get timed out"
    /\ Len(trace) > 1
    /\ trace[Len(trace) - 1].k = "wait"
    /\ trace[Len(trace) - 1].v \notin cluster.inq

\* ---- C34
QuorumWaits == {w \in 1..Len(trace) : trace[w].k = "wait"}
\* the operation a quorum wait belongs to: the last one that began before it
IsOpOf(b, w) ==
    /\ trace[b].k = "begin"
    /\ b < w
    /\ \A j \in (b + 1)..(w - 1) : trace[j].k # "begin"
\* the status entries that name an operation ahead of its quorum waits
WaitStatuses(op) ==
    CASE op = "create" -> {"Forming first quorum and configuring cluster",
                           "Setting cluster tunables if necessary"}
      [] op = "replace" -> {"Detected CLUSTER REPLACE. Waiting for new quorum.",
                            "Setting cluster tunables if necessary"}
      [] op = "add_nodes" -> {"Quorum already exists, adding nodes to cluster"}
      [] op = "remove_nodes" -> {"Quorum already exists, removing nodes from cluster."}
      [] op = "capacity" -> {"Increasing soft capacity limit"}
      [] op = "add_buckets" -> {"Adding buckets for persistent storage",
                                "Increasing soft capacity limit"}
      [] OTHER -> {}

\* C34: every quorum wait belongs to an operation (create, replace, add
\* nodes, remove nodes, capacity update, bucket addition; the tunables wait
\* is inside create and replace), and a status entry naming that operation
\* was appended inside the operation, after the previous quorum wait and
\* before this one began.
C34_WaitsAnnounced ==
    \A w \in QuorumWaits :
        \E b \in 1..(w - 1) :
            /\ IsOpOf(b, w)
            /\ \E s \in (b + 1)..(w - 1) :
                  /\ trace[s].k = "status"
                  /\ trace[s].n \in WaitStatuses(trace[b].n)
                  /\ \A j \in (s + 1)..(w - 1) : trace[j].k # "wait"

\* a run that waited for the quorum when it added nodes and again when it
\* added a bucket
C34_Witness ==
    /\ Ended("add_nodes")
    /\ Ended("add_buckets")
    /\ Cardinality(QuorumWaits) = 2

\* a create that waited after the formation and after the tunables
C34_CreateWaitedTwice ==
    /\ Ended("create")
    /\ Cardinality(QuorumWaits) = 2
    /\ At("cmd", "PUT credit_accountant_io_refill_iops") # {}

\* ---- C35
SurveyStarts == At("status", "Checking quorum state and boot status")
PlanStatuses == {"All nodes out of quorum, NEW CLUSTER", "Cluster in full quorum"}
PlanStarts == {i \in 1..Len(trace) : trace[i].k = "status" /\ trace[i].n \in PlanStatuses}
\* the versions the surveys of the run returned
SurveyedVersions == {trace[j].v : j \in At("put", "installed-version")}
\* the survey of the run returned a version below the minimum
BelowMinimum ==
    \/ pc = "gate" /\ ~VersionOk(survey.ver)
    \/ \E j \in 1..Len(trace) : trace[j].n = MinVersionMsg
RecordWrites == {j \in 1..Len(trace) : trace[j].k = "put"}
MutatingCommands == {j \in 1..Len(trace) : IsMutating(trace[j])}
EveryNodeAnsweredBefore(s) ==
    \A i \in 1..Len(config.node_ips) :
        \E p \in At("probe200", "chkurl") : p < s /\ trace[p].v = config.node_ips[i]

\* C35 as stated: the survey starts, and the plan is made, only after every
\* target node answered the admin-port probe with HTTP 200; the plan is made
\* only after the version gate passed; and a run whose surveyed version is
\* below the minimum issues no cluster-mutating command and writes no field
\* of the ClusterRecord, installed-version and creation-version included.
C35_StagesOrdered ==
    /\ \A s \in SurveyStarts \cup PlanStarts : EveryNodeAnsweredBefore(s)
    /\ (PlanStarts # {} \/ Planned) =>
          (~BelowMinimum /\ \A v \in SurveyedVersions : VersionOk(v))
    /\ BelowMinimum => (MutatingCommands = {} /\ RecordWrites = {})

\* the same, with the two version fields that the survey writes ahead of the
\* gate as the only fields such a run writes
C35_StagesOrderedVersionWritten ==
    /\ \A s \in SurveyStarts \cup PlanStarts : EveryNodeAnsweredBefore(s)
    /\ (PlanStarts # {} \/ Planned) =>
          (~BelowMinimum /\ \A v \in SurveyedVersions : VersionOk(v))
    /\ BelowMinimum =>
          /\ MutatingCommands = {}
          /\ \A j \in RecordWrites : trace[j].n \in {"installed-version", "creation-version"}

\* a run was rejected at the version gate after its survey had recorded the
\* rejected version as installed-version and as creation-version
C35_RejectedVersionRecorded ==
    /\ pc \in {"except", "raised"}
    /\ err = MinVersionMsg
    /\ ~VersionOk(get(store, "installed-version", "cur"))
    /\ ~VersionOk(get(store, "creation-version", "cur"))

\* ---- C36
\* the plans that found the cluster in existence: new_cluster is not set
ExistingPlans == At("status", "Cluster in full quorum")
OperationsBegun == {j \in 1..Len(trace) : trace[j].k = "begin"}

\* C36: in the run of a replacement target whose plan found target nodes in
\* quorum (new_cluster not set), no cluster-mutating command is issued and no
\* operation begins; the only login is the planner's, made before the plan's
\* status entry; the run never gets past the executor's entry and never
\* completes: the executor ends it with its fatal error.
C36_ReplacementInQuorumStops ==
    (config.replace_cluster /\ ExistingPlans # {}) =>
        /\ MutatingCommands = {}
        /\ OperationsBegun = {}
        /\ \A l \in At("cmd", "login") : \A s \in ExistingPlans : l < s
        /\ pc \in {"plan", "execute", "except", "raised"}
        /\ (pc \in {"except", "raised"} /\ ~flags.new_cluster /\ err = NoNewNodesMsg) =>
              \A s \in ExistingPlans : \A j \in (s + 1)..Len(trace) : trace[j].k # "cmd"

\* a replacement target whose node was in quorum was stopped by the executor
C36_Witness ==
    /\ config.replace_cluster
    /\ ExistingPlans # {}
    /\ pc = "except"
    /\ err = NoNewNodesMsg
    /\ Range(config.node_ips) \subseteq cluster.inq

\* ---- C37
MembershipOps == {"create", "replace", "add_nodes", "remove_nodes"}
\* the completed membership operations of the run: begin and end marker
OpEnds == {e \in 1..Len(trace) : trace[e].k = "end" /\ trace[e].n \in MembershipOps}
BeginOf(e) == CHOOSE b \in 1..e : trace[b].k = "begin" /\ trace[b].n = trace[e].n
CompletedOps == {<<BeginOf(e), e>> : e \in OpEnds}
\* the pairs a formation or membership command was given
PairsSent(e) ==
    IF e.n = "create_object_backed_cluster" THEN Len(e.v.nodes) ELSE Len(e.v)
IsMembershipCmd(e) ==
    /\ e.k = "cmd"
    /\ e.n \in {"create_object_backed_cluster", "modify_object_backed_cluster_membership"}
\* the length of the list that the operation wrote to a membership field
WrittenLens(be, key) ==
    {Len(deserialize_list_from_firestore(trace[j].v)) :
        j \in {i \in (be[1] + 1)..(be[2] - 1) : trace[i].k = "put" /\ trace[i].n = key}}
TargetListsAligned ==
    /\ Len(config.node_ips) = Len(config.fault_domain_ids)
    /\ Len(config.node_ips) = Len(config.instance_ids)

\* C37: with target lists of equal length, every completed create, replace,
\* add-nodes and remove-nodes operation has written node-ips,
\* fault-domain-ids and instance-ids, each once, with lists of one and the
\* same length, and that length is the number of node/fault-domain pairs of
\* the one formation or membership command the operation issued; right after
\* the operation the three persisted lists have that length.
C37_ParallelLists ==
    TargetListsAligned =>
        \A be \in CompletedOps :
            \E n \in 1..Len(config.node_ips) :
                /\ \A key \in MembershipKeys : WrittenLens(be, key) = {n}
                /\ \E c \in (be[1] + 1)..(be[2] - 1) :
                      /\ IsMembershipCmd(trace[c])
                      /\ PairsSent(trace[c]) = n
                      /\ \A d \in (be[1] + 1)..(be[2] - 1) : IsMembershipCmd(trace[d]) => d = c
                /\ be[2] = Len(trace) =>
                      \A key \in MembershipKeys : Len(get_list(store, key, "cur")) = n

\* a remove-nodes operation has just completed that cut the three lists of a
\* longer target to the target node count
C37_Witness ==
    /\ Len(trace) > 0
    /\ trace[Len(trace)] = End("remove_nodes")
    /\ config.target_node_count < Len(config.node_ips)
    /\ Len(get_list(store, "instance-ids", "cur")) = config.target_node_count

\* a run completed add-nodes and then remove-nodes
C37_AddThenRemove == Ended("add_nodes") /\ Ended("remove_nodes")

\* ---- C38
\* the survey has returned and its counts are still held
Surveyed == pc \in {"gate", "plan", "execute"}
ActiveTargets == {i \in 1..Len(config.node_ips) : config.node_ips[i] \in cluster.inq}

\* C38: when the survey has returned, in_quorum + out_quorum is the number of
\* target node IPs; a node is counted in quorum only if it is active, so
\* in_quorum is at most the number of active target nodes and every target
\* node that is not active is counted out of quorum.
C38_SurveyCountsEveryNode ==
    Surveyed =>
        /\ survey.in + survey.out = Len(config.node_ips)
        /\ survey.in <= Cardinality(ActiveTargets)
        /\ survey.out >= Len(config.node_ips) - Cardinality(ActiveTargets)

\* a survey of three nodes returned with an active node counted out of
\* quorum, its probe having exited with an error
C38_Witness ==
    /\ pc = "gate"
    /\ Len(config.node_ips) = 3
    /\ Cardinality(ActiveTargets) = 3
    /\ survey.in = 2
    /\ survey.out = 1

\* a survey counted some nodes in quorum and some out
C38_Mixed ==
    /\ pc = "gate"
    /\ survey.in > 0
    /\ survey.out > 0
    /\ Cardinality(ActiveTargets) < Len(config.node_ips)

\* ---- C39
PersistedLimit(st) == get(st, "soft-capacity-limit", "cur")
\* the clamp commands a step issues
ClampsIssued ==
    {j \in (Len(trace) + 1)..Len(trace') :
        trace'[j].k = "cmd" /\ trace'[j].n = "capacity_clamp_set"}

\* C39 as stated: on an existing cluster that is not a replacement, no step
\* of a run lowers the persisted soft-capacity-limit, and every
\* capacity_clamp_set command, the one of a bucket addition included, is
\* issued with a value that is at least the persisted limit.
C39_LimitNeverLowered ==
    [][(~config.replace_cluster /\ PersistedLimit(store) # NULL) =>
          /\ PersistedLimit(store') # NULL
          /\ int(PersistedLimit(store')) >= int(PersistedLimit(store))
          /\ \A j \in ClampsIssued : trace'[j].v >= int(PersistedLimit(store))]_vars

\* the same for the runs that add no bucket
C39_LimitNeverLoweredAlone ==
    [][(~config.replace_cluster /\ PersistedLimit(store) # NULL /\ ~flags.add_buckets) =>
          /\ PersistedLimit(store') # NULL
          /\ int(PersistedLimit(store')) >= int(PersistedLimit(store))
          /\ \A j \in ClampsIssued : trace'[j].v >= int(PersistedLimit(store))]_vars

====
